---------------------------- MODULE Spec2Model ----------------------------
(***************************************************************************)
(* Model of the broker-statement normaliser (finprogress-sberbank):        *)
(* field coercion (src/utils.py), the operation classifier                 *)
(* (src/parsers/operation_classifier.py), the three category parsers       *)
(* (src/parsers/xls_parsers/*.py) and the orchestrator                     *)
(* (src/services/full_statement_xls.py).                                   *)
(*                                                                         *)
(* Text is a sequence of Unicode code points (TLC strings cannot be        *)
(* indexed and cannot hold Cyrillic), so that lower(), strip(), replace()  *)
(* and the substring tests of the source are computed character by         *)
(* character.  Every phrase constant carries the source text in a comment. *)
(*                                                                         *)
(* A Python float is [k, m, e]: k = "num" is the finite value m * 10^(-e)  *)
(* in normal form (m not divisible by 10, or m = 0 and e = 0), k = "inf"   *)
(* is the infinity of sign m, k = "nan" is NaN.                            *)
(***************************************************************************)
EXTENDS Integers, Sequences, FiniteSets, TLC

VARIABLES
    pc,          \* position of the running call
    arg,         \* argument(s) of the function under test / the input file
    ret,         \* value returned by the last completed call
    fin,         \* cash-movement category: [ops, stats] as returned by parse()
    trd,         \* trades category: [ops, stats] after the orchestrator's error branch
    trf,         \* transfers category: [ops, stats] after the orchestrator's error branch
    par          \* running category parser: [df, cm, i, ops, stats, last]

vars == <<pc, arg, ret, fin, trd, trf, par>>

----------------------------------------------------------------------------
(* Characters and text                                                     *)

\* str.lower() on one code point: A-Z, the Cyrillic capitals and capital Io.
Lower(c) ==
    IF c \in 65..90 THEN c + 32
    ELSE IF c \in 1040..1071 THEN c + 32
    ELSE IF c = 1025 THEN 1105
    ELSE c

\* str.upper() on one code point.
Upper(c) ==
    IF c \in 97..122 THEN c - 32
    ELSE IF c \in 1072..1103 THEN c - 32
    ELSE IF c = 1105 THEN 1025
    ELSE c

LowerStr(s) == [i \in 1..Len(s) |-> Lower(s[i])]

UpperStr(s) == [i \in 1..Len(s) |-> Upper(s[i])]

\* the characters str.strip() removes: tab, LF, VT, FF, CR, space, NBSP
IsSpace(c) == c \in {9, 10, 11, 12, 13, 32, 160}

RECURSIVE LStrip(_)
LStrip(s) == IF s # <<>> /\ IsSpace(Head(s)) THEN LStrip(Tail(s)) ELSE s

RECURSIVE RStrip(_)
RStrip(s) ==
    IF s # <<>> /\ IsSpace(s[Len(s)]) THEN RStrip(SubSeq(s, 1, Len(s) - 1)) ELSE s

\* str.strip()
Strip(s) == RStrip(LStrip(s))

\* Python's `sub in s`
Contains(sub, s) ==
    \E i \in 0..(Len(s) - Len(sub)) : SubSeq(s, i + 1, i + Len(sub)) = sub

\* s.replace(chr(a), "")
RECURSIVE RemoveChar(_, _)
RemoveChar(s, a) ==
    IF s = <<>> THEN <<>>
    ELSE IF Head(s) = a THEN RemoveChar(Tail(s), a)
    ELSE <<Head(s)>> \o RemoveChar(Tail(s), a)

\* s.replace(chr(a), chr(b))
ReplaceChar(s, a, b) == [i \in 1..Len(s) |-> IF s[i] = a THEN b ELSE s[i]]

IsDigit(c) == c \in 48..57

AllDigits(s) == \A i \in 1..Len(s) : IsDigit(s[i])

\* value of a run of decimal digits
RECURSIVE DigitsValue(_)
DigitsValue(s) ==
    IF s = <<>> THEN 0 ELSE DigitsValue(SubSeq(s, 1, Len(s) - 1)) * 10 + (s[Len(s)] - 48)

\* first position of a character of set cs in s, 0 when there is none
FirstIn(s, cs) ==
    IF \E i \in 1..Len(s) : s[i] \in cs
    THEN CHOOSE i \in 1..Len(s) : s[i] \in cs /\ \A j \in 1..(i - 1) : s[j] \notin cs
    ELSE 0

\* the decimal digits of a natural number
RECURSIVE DigitsOf(_)
DigitsOf(n) == IF n < 10 THEN <<48 + n>> ELSE DigitsOf(n \div 10) \o <<48 + (n % 10)>>

\* n zeros
Zeros(n) == [i \in 1..n |-> 48]

----------------------------------------------------------------------------
(* Python floats                                                           *)

NaN == [k |-> "nan", m |-> 0, e |-> 0]

Inf(sign) == [k |-> "inf", m |-> sign, e |-> 0]

\* normal form of m * 10^(-e)
RECURSIVE Num(_, _)
Num(m, e) ==
    IF m = 0 THEN [k |-> "num", m |-> 0, e |-> 0]
    ELSE IF m % 10 = 0 THEN Num(m \div 10, e - 1)
    ELSE [k |-> "num", m |-> m, e |-> e]

Zero == Num(0, 0)

IsFinite(x) == x.k = "num"

\* x > 0, x == 0, x >= 0 as Python evaluates them: every comparison with NaN is False
FGt0(x) == x.k # "nan" /\ x.m > 0

FEq0(x) == x.k = "num" /\ x.m = 0

FGe0(x) == x.k # "nan" /\ x.m >= 0

\* abs(x): abs(nan) is nan
FAbs(x) == [x EXCEPT !.m = IF x.m < 0 THEN -x.m ELSE x.m]

\* number of decimal digits of a natural number
RECURSIVE NDigits(_)
NDigits(n) == IF n < 10 THEN 1 ELSE 1 + NDigits(n \div 10)

\* the double m * 10^(-e): above the largest finite double (about 1.8e308) float()
\* gives an infinity, below the smallest denormal (about 5e-324) it gives zero
Finite(m, e) ==
    LET a == IF m < 0 THEN -m ELSE m
        mag == NDigits(a) - e - 1      \* decimal exponent of the leading digit
    IN  IF m = 0 THEN Zero
        ELSE IF mag > 308 THEN Inf(IF m < 0 THEN -1 ELSE 1)
        ELSE IF mag < -324 THEN Zero
        ELSE Num(m, e)

\* 10^n
RECURSIVE Pow10(_)
Pow10(n) == IF n <= 0 THEN 1 ELSE 10 * Pow10(n - 1)

\* the sum of two finite floats with the larger of the two scales
AddAtScale(a, b, e) == Finite(a.m * Pow10(e - a.e) + b.m * Pow10(e - b.e), e)

\* a + b; the decimal sum is exact, so it is the float sum wherever that one is exact
FAdd(a, b) ==
    IF a.k = "nan" \/ b.k = "nan" THEN NaN
    ELSE IF a.k = "inf" /\ b.k = "inf" THEN (IF a.m = b.m THEN a ELSE NaN)
    ELSE IF a.k = "inf" THEN a
    ELSE IF b.k = "inf" THEN b
    ELSE AddAtScale(a, b, IF a.e > b.e THEN a.e ELSE b.e)

Failed == [ok |-> FALSE, v |-> NaN]

Parsed(v) == [ok |-> TRUE, v |-> v]

\* "inf", "infinity", "nan"
SpecialWords == { <<105, 110, 102>>, <<105, 110, 102, 105, 110, 105, 116, 121>> }

NanWord == <<110, 97, 110>>

\* float(str): leading and trailing whitespace, a sign, then inf / infinity / nan in
\* any case, or digits with an optional point and an optional exponent.
\* ok = FALSE stands for ValueError.

\* the digits around the point, scaled by the exponent
FloatOfDigits(sgn, ip, fp, ex) ==
    IF AllDigits(ip) /\ AllDigits(fp) /\ Len(ip) + Len(fp) > 0 /\ ex.ok
    THEN Parsed(Finite(sgn * DigitsValue(ip \o fp), Len(fp) - ex.v))
    ELSE Failed

\* the mantissa split at its point
FloatOfMantissa(sgn, mant, dot, ex) ==
    IF dot = 0 THEN FloatOfDigits(sgn, mant, <<>>, ex)
    ELSE FloatOfDigits(sgn, SubSeq(mant, 1, dot - 1), SubSeq(mant, dot + 1, Len(mant)), ex)

\* the exponent after e / E: an optional sign and at least one digit
FloatExponent(expo) ==
    IF expo # <<>> /\ expo[1] \in {43, 45}
    THEN [ok |-> Len(expo) > 1 /\ AllDigits(Tail(expo)),
          v |-> (IF expo[1] = 45 THEN -1 ELSE 1) * DigitsValue(Tail(expo))]
    ELSE [ok |-> expo # <<>> /\ AllDigits(expo), v |-> DigitsValue(expo)]

\* the unsigned text split at its first e / E
FloatOfNumber(sgn, body, ePos) ==
    IF ePos = 0
    THEN FloatOfMantissa(sgn, body, FirstIn(body, {46}), [ok |-> TRUE, v |-> 0])
    ELSE FloatOfMantissa(sgn, SubSeq(body, 1, ePos - 1),
                         FirstIn(SubSeq(body, 1, ePos - 1), {46}),
                         FloatExponent(SubSeq(body, ePos + 1, Len(body))))

\* the text after the sign
FloatOfBody(sgn, body, low) ==
    IF low \in SpecialWords THEN Parsed(Inf(sgn))
    ELSE IF low = NanWord THEN Parsed(NaN)
    ELSE FloatOfNumber(sgn, body, FirstIn(body, {69, 101}))

\* the text without surrounding whitespace
FloatOfStripped(s) ==
    IF s # <<>> /\ s[1] \in {43, 45}
    THEN FloatOfBody(IF s[1] = 45 THEN -1 ELSE 1, Tail(s), LowerStr(Tail(s)))
    ELSE FloatOfBody(1, s, LowerStr(s))

PyFloat(s0) == FloatOfStripped(Strip(s0))

----------------------------------------------------------------------------
(* OperationClassifier (src/parsers/operation_classifier.py)               *)

\* Operation kinds are text, as in the source, so that they sort lexicographically.
\* "refund"
K_refund == <<114, 101, 102, 117, 110, 100>>

\* "withholding"
K_withholding == <<119, 105, 116, 104, 104, 111, 108, 100, 105, 110, 103>>

\* "commission_refund"
K_commission_refund == <<99, 111, 109, 109, 105, 115, 115, 105, 111, 110, 95, 114, 101, 102, 117, 110, 100>>

\* "dividend"
K_dividend == <<100, 105, 118, 105, 100, 101, 110, 100>>

\* "coupon"
K_coupon == <<99, 111, 117, 112, 111, 110>>

\* "transfer"
K_transfer == <<116, 114, 97, 110, 115, 102, 101, 114>>

\* "unknown"
K_unknown == <<117, 110, 107, 110, 111, 119, 110>>

\* "amortization"
K_amortization == <<97, 109, 111, 114, 116, 105, 122, 97, 116, 105, 111, 110>>

\* "repayment"
K_repayment == <<114, 101, 112, 97, 121, 109, 101, 110, 116>>

\* "deposit"
K_deposit == <<100, 101, 112, 111, 115, 105, 116>>

\* "withdrawal"
K_withdrawal == <<119, 105, 116, 104, 100, 114, 97, 119, 97, 108>>

\* "other_income"
K_other_income == <<111, 116, 104, 101, 114, 95, 105, 110, 99, 111, 109, 101>>

\* "buy"
K_buy == <<98, 117, 121>>

\* "sale"
K_sale == <<115, 97, 108, 101>>

\* "asset_receive"
K_asset_receive == <<97, 115, 115, 101, 116, 95, 114, 101, 99, 101, 105, 118, 101>>

\* "asset_withdrawal"
K_asset_withdrawal == <<97, 115, 115, 101, 116, 95, 119, 105, 116, 104, 100, 114, 97, 119, 97, 108>>

\* "_skip_"
K_skip == <<95, 115, 107, 105, 112, 95>>

\* the dynamic-rule pattern "НДФЛ"
NDFL == <<1053, 1044, 1060, 1051>>

\* the handler with an amount of 0 counted as a refund
NdflHandlerZeroRefund(name, amount, comment) == IF FGe0(amount) THEN K_refund ELSE K_withholding

\* DYNAMIC_TYPE_HANDLERS["НДФЛ"]: "refund" if amount > 0 else "withholding"
NdflHandler(name, amount, comment) == IF FGt0(amount) THEN K_refund ELSE K_withholding

\* DYNAMIC_TYPE_HANDLERS, in iteration order
DYNAMIC_TYPE_HANDLERS == << [pattern |-> NDFL] >>

\* OPERATION_TYPE_MAP, in insertion order:
\*   "Возмещение" -> "commission_refund"
\*   "Дивиденды" -> "dividend"
\*   "Купонный доход" -> "coupon"
\*   "Погашение купона" -> "coupon"
OPERATION_TYPE_MAP ==
    << [key |-> <<1042, 1086, 1079, 1084, 1077, 1097, 1077, 1085, 1080, 1077>>, kind |-> K_commission_refund],
       [key |-> <<1044, 1080, 1074, 1080, 1076, 1077, 1085, 1076, 1099>>, kind |-> K_dividend],
       [key |-> <<1050, 1091, 1087, 1086, 1085, 1085, 1099, 1081, 32, 1076, 1086, 1093, 1086, 1076>>, kind |-> K_coupon],
       [key |-> <<1055, 1086, 1075, 1072, 1096, 1077, 1085, 1080, 1077, 32, 1082, 1091, 1087, 1086, 1085, 1072>>, kind |-> K_coupon] >>

\* SKIP_OPERATIONS:
\*   "Расчеты по сделке"
\*   "Комиссия по сделке"
\*   "НКД по сделке"
\*   "Покупка/Продажа"
\*   "Покупка/Продажа (репо)"
\*   "Переводы между площадками"
SKIP_OPERATIONS ==
    { <<1056, 1072, 1089, 1095, 1077, 1090, 1099, 32, 1087, 1086, 32, 1089, 1076, 1077, 1083, 1082, 1077>>,
      <<1050, 1086, 1084, 1080, 1089, 1089, 1080, 1103, 32, 1087, 1086, 32, 1089, 1076, 1077, 1083, 1082, 1077>>,
      <<1053, 1050, 1044, 32, 1087, 1086, 32, 1089, 1076, 1077, 1083, 1082, 1077>>,
      <<1055, 1086, 1082, 1091, 1087, 1082, 1072, 47, 1055, 1088, 1086, 1076, 1072, 1078, 1072>>,
      <<1055, 1086, 1082, 1091, 1087, 1082, 1072, 47, 1055, 1088, 1086, 1076, 1072, 1078, 1072, 32, 40, 1088, 1077, 1087, 1086, 41>>,
      <<1055, 1077, 1088, 1077, 1074, 1086, 1076, 1099, 32, 1084, 1077, 1078, 1076, 1091, 32, 1087, 1083, 1086, 1097, 1072, 1076, 1082, 1072, 1084, 1080>> }

\* TRANSFER_COMMENT_PATTERNS, in insertion order:
\*   "coupon": 'погашение купона', 'погашением купона'
\*   "amortization": 'частичное погашение номинала', 'частичном погашении номинала'
\*   "repayment": 'полное погашение номинала', 'полном погашении номинала', 'досрочное погашение номинала'
\*   "deposit": 'из ао "альфа-банк', 'из ао альфа-банк', 'card2catd', 'card2bpk'
\*   "dividend": 'дивиденд'
\*   "withdrawal": 'списание по поручению клиента', 'возврат средств по дог'
\*   "other_income": 'выплата по поручению клиента в рамках', 'исполнение обязательств'
TRANSFER_COMMENT_PATTERNS ==
    << [kind |-> K_coupon,
        patterns |-> << <<1087, 1086, 1075, 1072, 1096, 1077, 1085, 1080, 1077, 32, 1082, 1091, 1087, 1086, 1085, 1072>>,
                      <<1087, 1086, 1075, 1072, 1096, 1077, 1085, 1080, 1077, 1084, 32, 1082, 1091, 1087, 1086, 1085, 1072>> >>],
       [kind |-> K_amortization,
        patterns |-> << <<1095, 1072, 1089, 1090, 1080, 1095, 1085, 1086, 1077, 32, 1087, 1086, 1075, 1072, 1096, 1077, 1085, 1080, 1077, 32, 1085, 1086, 1084, 1080, 1085, 1072, 1083, 1072>>,
                      <<1095, 1072, 1089, 1090, 1080, 1095, 1085, 1086, 1084, 32, 1087, 1086, 1075, 1072, 1096, 1077, 1085, 1080, 1080, 32, 1085, 1086, 1084, 1080, 1085, 1072, 1083, 1072>> >>],
       [kind |-> K_repayment,
        patterns |-> << <<1087, 1086, 1083, 1085, 1086, 1077, 32, 1087, 1086, 1075, 1072, 1096, 1077, 1085, 1080, 1077, 32, 1085, 1086, 1084, 1080, 1085, 1072, 1083, 1072>>,
                      <<1087, 1086, 1083, 1085, 1086, 1084, 32, 1087, 1086, 1075, 1072, 1096, 1077, 1085, 1080, 1080, 32, 1085, 1086, 1084, 1080, 1085, 1072, 1083, 1072>>,
                      <<1076, 1086, 1089, 1088, 1086, 1095, 1085, 1086, 1077, 32, 1087, 1086, 1075, 1072, 1096, 1077, 1085, 1080, 1077, 32, 1085, 1086, 1084, 1080, 1085, 1072, 1083, 1072>> >>],
       [kind |-> K_deposit,
        patterns |-> << <<1080, 1079, 32, 1072, 1086, 32, 34, 1072, 1083, 1100, 1092, 1072, 45, 1073, 1072, 1085, 1082>>,
                      <<1080, 1079, 32, 1072, 1086, 32, 1072, 1083, 1100, 1092, 1072, 45, 1073, 1072, 1085, 1082>>,
                      <<99, 97, 114, 100, 50, 99, 97, 116, 100>>,
                      <<99, 97, 114, 100, 50, 98, 112, 107>> >>],
       [kind |-> K_dividend,
        patterns |-> << <<1076, 1080, 1074, 1080, 1076, 1077, 1085, 1076>> >>],
       [kind |-> K_withdrawal,
        patterns |-> << <<1089, 1087, 1080, 1089, 1072, 1085, 1080, 1077, 32, 1087, 1086, 32, 1087, 1086, 1088, 1091, 1095, 1077, 1085, 1080, 1102, 32, 1082, 1083, 1080, 1077, 1085, 1090, 1072>>,
                      <<1074, 1086, 1079, 1074, 1088, 1072, 1090, 32, 1089, 1088, 1077, 1076, 1089, 1090, 1074, 32, 1087, 1086, 32, 1076, 1086, 1075>> >>],
       [kind |-> K_other_income,
        patterns |-> << <<1074, 1099, 1087, 1083, 1072, 1090, 1072, 32, 1087, 1086, 32, 1087, 1086, 1088, 1091, 1095, 1077, 1085, 1080, 1102, 32, 1082, 1083, 1080, 1077, 1085, 1090, 1072, 32, 1074, 32, 1088, 1072, 1084, 1082, 1072, 1093>>,
                      <<1080, 1089, 1087, 1086, 1083, 1085, 1077, 1085, 1080, 1077, 32, 1086, 1073, 1103, 1079, 1072, 1090, 1077, 1083, 1100, 1089, 1090, 1074>> >>] >>

\* the generic transfer marker "перевод"
PEREVOD == <<1087, 1077, 1088, 1077, 1074, 1086, 1076>>

\* the dynamic rule: the first handler whose lower-cased pattern is in the lower-cased
\* label decides (the handlers never raise on a float amount)
DynamicMatches(oper_type_val) ==
    \E i \in 1..Len(DYNAMIC_TYPE_HANDLERS) :
        Contains(LowerStr(DYNAMIC_TYPE_HANDLERS[i].pattern), LowerStr(oper_type_val))

\* index of the first entry of OPERATION_TYPE_MAP whose key satisfies P, 0 if none
FirstMapIndex(P) ==
    IF \E i \in 1..Len(OPERATION_TYPE_MAP) : P[OPERATION_TYPE_MAP[i].key]
    THEN CHOOSE i \in 1..Len(OPERATION_TYPE_MAP) :
            /\ P[OPERATION_TYPE_MAP[i].key]
            /\ \A j \in 1..(i - 1) : ~P[OPERATION_TYPE_MAP[j].key]
    ELSE 0

\* the keys of OPERATION_TYPE_MAP
MapKeys == { OPERATION_TYPE_MAP[i].key : i \in 1..Len(OPERATION_TYPE_MAP) }

\* op_type_raw in OPERATION_TYPE_MAP
IsKey(oper_type_val) == [k \in MapKeys |-> k = oper_type_val]

\* key.lower() in oper_lower
InLabel(oper_type_val) == [k \in MapKeys |-> Contains(LowerStr(k), LowerStr(oper_type_val))]

\* a phrase list of TRANSFER_COMMENT_PATTERNS has a phrase inside the comment
PatternHit(i, comment_lower) ==
    \E j \in 1..Len(TRANSFER_COMMENT_PATTERNS[i].patterns) :
        Contains(TRANSFER_COMMENT_PATTERNS[i].patterns[j], comment_lower)

\* the sub-classification with the last matching phrase list deciding
TransferKindLastMatch(comment_lower) ==
    IF \E i \in 1..Len(TRANSFER_COMMENT_PATTERNS) : PatternHit(i, comment_lower)
    THEN TRANSFER_COMMENT_PATTERNS[
            CHOOSE i \in 1..Len(TRANSFER_COMMENT_PATTERNS) :
                /\ PatternHit(i, comment_lower)
                /\ \A j \in (i + 1)..Len(TRANSFER_COMMENT_PATTERNS) :
                      ~PatternHit(j, comment_lower)].kind
    ELSE K_transfer

\* the sub-classification of a transfer label by its comment
TransferKind(comment_lower) ==
    IF \E i \in 1..Len(TRANSFER_COMMENT_PATTERNS) : PatternHit(i, comment_lower)
    THEN TRANSFER_COMMENT_PATTERNS[
            CHOOSE i \in 1..Len(TRANSFER_COMMENT_PATTERNS) :
                /\ PatternHit(i, comment_lower)
                /\ \A j \in 1..(i - 1) : ~PatternHit(j, comment_lower)].kind
    ELSE K_transfer

\* determine_operation_type after the dynamic rules: exact table, substring table,
\* transfer marker, trimmed raw label
LookedUpType(oper_type_val, comment_text, exact, sub) ==
    IF exact # 0 THEN OPERATION_TYPE_MAP[exact].kind
    ELSE IF sub # 0 THEN OPERATION_TYPE_MAP[sub].kind
    ELSE IF Contains(PEREVOD, LowerStr(oper_type_val))
         THEN TransferKind(LowerStr(comment_text))
    ELSE IF Strip(oper_type_val) # <<>> THEN Strip(oper_type_val)
    ELSE K_unknown

StaticOperationType(oper_type_val, comment_text) ==
    LookedUpType(oper_type_val, comment_text,
                 FirstMapIndex(IsKey(oper_type_val)), FirstMapIndex(InLabel(oper_type_val)))

\* determine_operation_type with the label tables consulted before the dynamic rules
determine_operation_type_tables_first(oper_type_val, comment_text, payment_sum) ==
    IF FirstMapIndex(IsKey(oper_type_val)) = 0
       /\ FirstMapIndex(InLabel(oper_type_val)) = 0
       /\ DynamicMatches(oper_type_val)
    THEN NdflHandler(oper_type_val, payment_sum, comment_text)
    ELSE StaticOperationType(oper_type_val, comment_text)

\* OperationClassifier.determine_operation_type
determine_operation_type(oper_type_val, comment_text, payment_sum) ==
    IF DynamicMatches(oper_type_val)
    THEN NdflHandler(oper_type_val, payment_sum, comment_text)
    ELSE StaticOperationType(oper_type_val, comment_text)

\* should_skip_operation comparing the label as written
should_skip_operation_case_sensitive(oper_type, comment, label_source) ==
    IF label_source = <<>> THEN TRUE
    ELSE \E skip_pattern \in SKIP_OPERATIONS : Contains(skip_pattern, label_source)

\* OperationClassifier.should_skip_operation
should_skip_operation(oper_type, comment, label_source) ==
    IF label_source = <<>> THEN TRUE
    ELSE \E skip_pattern \in SKIP_OPERATIONS :
            Contains(LowerStr(skip_pattern), LowerStr(label_source))

\* repr(float) / str(float): "nan", "inf", "-inf", positional notation with at least
\* one fractional digit for 1e-4 <= |x| < 1e16 and exponent notation outside
FloatRepr(x) ==
    LET a == IF x.m < 0 THEN -x.m ELSE x.m
        sign == IF x.m < 0 THEN <<45>> ELSE <<>>
        ds == DigitsOf(a)
        mag == Len(ds) - x.e - 1
        padded == IF Len(ds) <= x.e THEN Zeros(x.e + 1 - Len(ds)) \o ds ELSE ds
        cut == Len(padded) - x.e
        ex == IF mag < 0 THEN -mag ELSE mag
    IN  IF x.k = "nan" THEN NanWord
        ELSE IF x.k = "inf" THEN sign \o <<105, 110, 102>>
        ELSE IF mag >= 16 \/ mag < -4
             THEN sign \o <<ds[1]>>
                  \o (IF Len(ds) > 1 THEN <<46>> \o Tail(ds) ELSE <<>>)
                  \o <<101>> \o (IF mag < 0 THEN <<45>> ELSE <<43>>)
                  \o (IF ex < 10 THEN <<48>> ELSE <<>>) \o DigitsOf(ex)
        ELSE IF x.e <= 0 THEN sign \o ds \o Zeros(-x.e) \o <<46, 48>>
        ELSE sign \o SubSeq(padded, 1, cut) \o <<46>> \o SubSeq(padded, cut + 1, Len(padded))

----------------------------------------------------------------------------
(* datetime                                                                *)

\* a datetime; NoDate stands for Python's None where a datetime is expected
Datetime(Y, M, D, h, m, s) == [Y |-> Y, M |-> M, D |-> D, h |-> h, m |-> m, s |-> s]

NoDate == Datetime(0, 0, 0, 0, 0, 0)

\* datetime.min
DatetimeMin == Datetime(1, 1, 1, 0, 0, 0)

IsLeap(Y) == (Y % 4 = 0 /\ Y % 100 # 0) \/ Y % 400 = 0

DaysInMonth(Y, M) ==
    IF M = 2 THEN (IF IsLeap(Y) THEN 29 ELSE 28)
    ELSE IF M \in {4, 6, 9, 11} THEN 30
    ELSE 31

\* the arguments datetime(...) accepts; anything else is ValueError
ValidDatetime(Y, M, D, h, m, s) ==
    /\ Y \in 1..9999 /\ M \in 1..12 /\ D >= 1 /\ D <= DaysInMonth(Y, M)
    /\ h \in 0..23 /\ m \in 0..59 /\ s \in 0..59

\* a < b on datetimes
DtLess(a, b) ==
    LET ka == <<a.Y, a.M, a.D, a.h, a.m, a.s>>
        kb == <<b.Y, b.M, b.D, b.h, b.m, b.s>>
    IN  \E i \in 1..6 : ka[i] < kb[i] /\ \A j \in 1..(i - 1) : ka[j] = kb[j]

\* a < b on text: Python compares str by code point, a proper prefix being smaller
StrLess(a, b) ==
    \/ \E i \in 1..Len(a) :
          /\ i <= Len(b) /\ a[i] < b[i]
          /\ \A j \in 1..(i - 1) : a[j] = b[j]
    \/ Len(a) < Len(b) /\ \A j \in 1..Len(a) : a[j] = b[j]

\* n printed with at least w digits (zero padded)
Pad(n, w) ==
    LET ds == DigitsOf(n) IN IF Len(ds) < w THEN Zeros(w - Len(ds)) \o ds ELSE ds

\* datetime.isoformat(): "YYYY-MM-DDTHH:MM:SS"
isoformat(d) ==
    Pad(d.Y, 4) \o <<45>> \o Pad(d.M, 2) \o <<45>> \o Pad(d.D, 2) \o <<84>>
    \o Pad(d.h, 2) \o <<58>> \o Pad(d.m, 2) \o <<58>> \o Pad(d.s, 2)

NoDatetime == [ok |-> FALSE, d |-> NoDate]

\* the datetime of the given components, or the failure datetime(...) raises
MakeDatetime(Y, M, D, h, m, s) ==
    IF ValidDatetime(Y, M, D, h, m, s)
    THEN [ok |-> TRUE, d |-> Datetime(Y, M, D, h, m, s)]
    ELSE NoDatetime

\* s[a..b] is a run of digits
DigitsAt(s, a, b) == b <= Len(s) /\ \A i \in a..b : IsDigit(s[i])

\* datetime.fromisoformat(s) on "YYYY-MM-DD" and "YYYY-MM-DDTHH:MM:SS" (any single
\* character separates date and time); ok = FALSE stands for ValueError
fromisoformat(s) ==
    LET dateOk == /\ Len(s) >= 10
                  /\ DigitsAt(s, 1, 4) /\ s[5] = 45 /\ DigitsAt(s, 6, 7)
                  /\ s[8] = 45 /\ DigitsAt(s, 9, 10)
        timeOk == /\ Len(s) = 19
                  /\ DigitsAt(s, 12, 13) /\ s[14] = 58 /\ DigitsAt(s, 15, 16)
                  /\ s[17] = 58 /\ DigitsAt(s, 18, 19)
        Y == DigitsValue(SubSeq(s, 1, 4))
        M == DigitsValue(SubSeq(s, 6, 7))
        D == DigitsValue(SubSeq(s, 9, 10))
    IN  IF dateOk /\ Len(s) = 10 THEN MakeDatetime(Y, M, D, 0, 0, 0)
        ELSE IF dateOk /\ timeOk
             THEN MakeDatetime(Y, M, D, DigitsValue(SubSeq(s, 12, 13)),
                               DigitsValue(SubSeq(s, 15, 16)), DigitsValue(SubSeq(s, 18, 19)))
        ELSE NoDatetime

\* s.split()[0]: the first whitespace-separated word; <<>> stands for IndexError
FirstWord(s) ==
    LET t == LStrip(s)
        cut == IF \E i \in 1..Len(t) : IsSpace(t[i])
               THEN (CHOOSE i \in 1..Len(t) :
                        IsSpace(t[i]) /\ \A j \in 1..(i - 1) : ~IsSpace(t[j])) - 1
               ELSE Len(t)
    IN  SubSeq(t, 1, cut)

\* A strptime format is a sequence of tokens: a directive (dir = "d", "m", "Y", "y",
\* "H", "M", "S") or a literal character (dir = "lit").
Dir(x) == [dir |-> x, ch |-> 0]

Lit(c) == [dir |-> "lit", ch |-> c]

\* "%d.%m.%Y", "%d.%m.%y", "%Y-%m-%d", " %H:%M", ":%S"
F_dmY == << Dir("d"), Lit(46), Dir("m"), Lit(46), Dir("Y") >>

F_dmy == << Dir("d"), Lit(46), Dir("m"), Lit(46), Dir("y") >>

F_Ymd == << Dir("Y"), Lit(45), Dir("m"), Lit(45), Dir("d") >>

F_HM == << Lit(32), Dir("H"), Lit(58), Dir("M") >>

F_S == << Lit(58), Dir("S") >>

\* length of the run of characters satisfying P at the head of s
RunLen(s, P) ==
    CHOOSE n \in 0..Len(s) :
        /\ \A i \in 1..n : P[s[i]]
        /\ (n = Len(s) \/ ~P[s[n + 1]])

\* the characters of s that are digits, and those that are whitespace
DigitIn(s) == [i \in { s[j] : j \in 1..Len(s) } |-> IsDigit(i)]

SpaceIn(s) == [i \in { s[j] : j \in 1..Len(s) } |-> IsSpace(i)]

\* the widths and the value range a directive accepts
DirMin(x) == CASE x = "Y" -> 4 [] x = "y" -> 2 [] OTHER -> 1

DirMax(x) == IF x = "Y" THEN 4 ELSE 2

DirRange(x) ==
    CASE x = "d" -> 1..31 [] x = "m" -> 1..12 [] x = "H" -> 0..23
      [] x = "M" -> 0..59 [] x = "S" -> 0..61 [] x = "y" -> 0..99 [] OTHER -> 0..9999

\* the fields strptime starts from
StrpDefaults == [Y |-> 1900, M |-> 1, D |-> 1, h |-> 0, m |-> 0, s |-> 0]

StrpSet(acc, x, n) ==
    CASE x = "d" -> [acc EXCEPT !.D = n]
      [] x = "m" -> [acc EXCEPT !.M = n]
      [] x = "Y" -> [acc EXCEPT !.Y = n]
      [] x = "y" -> [acc EXCEPT !.Y = IF n <= 68 THEN 2000 + n ELSE 1900 + n]
      [] x = "H" -> [acc EXCEPT !.h = n]
      [] x = "M" -> [acc EXCEPT !.m = n]
      [] OTHER -> [acc EXCEPT !.s = n]

\* the whole of s against the format: a directive takes the digits at the head (every
\* directive of the formats used is followed by a literal or by the end, so the regex
\* of strptime cannot split a digit run), a space of the format takes a run of
\* whitespace, any other literal takes itself
RECURSIVE StrpMatch(_, _, _)
StrpMatch(fmt, s, acc) ==
    IF fmt = <<>> THEN (IF s = <<>> THEN MakeDatetime(acc.Y, acc.M, acc.D, acc.h, acc.m, acc.s)
                        ELSE NoDatetime)
    ELSE LET tok == Head(fmt)
             run == RunLen(s, DigitIn(s))
             n == IF run > DirMax(tok.dir) THEN DirMax(tok.dir) ELSE run
             v == DigitsValue(SubSeq(s, 1, n))
             ws == RunLen(s, SpaceIn(s))
         IN  IF tok.dir = "lit"
             THEN IF tok.ch = 32
                  THEN (IF ws >= 1 THEN StrpMatch(Tail(fmt), SubSeq(s, ws + 1, Len(s)), acc)
                        ELSE NoDatetime)
                  ELSE (IF s # <<>> /\ s[1] = tok.ch THEN StrpMatch(Tail(fmt), Tail(s), acc)
                        ELSE NoDatetime)
             ELSE IF n >= DirMin(tok.dir) /\ v \in DirRange(tok.dir)
                  THEN StrpMatch(Tail(fmt), SubSeq(s, n + 1, Len(s)), StrpSet(acc, tok.dir, v))
                  ELSE NoDatetime

\* datetime.strptime(s, fmt); ok = FALSE stands for ValueError
strptime(s, fmt) == StrpMatch(fmt, s, StrpDefaults)

\* the first format of the list that parses s
RECURSIVE FirstFormat(_, _)
FirstFormat(s, fmts) ==
    IF fmts = <<>> THEN NoDatetime
    ELSE IF strptime(s, Head(fmts)).ok THEN strptime(s, Head(fmts))
    ELSE FirstFormat(s, Tail(fmts))

----------------------------------------------------------------------------
(* Typed grid cells, as pandas hands them to the parsers                   *)

\* an empty cell: pandas reads it as the float NaN
EmptyCell == [t |-> "empty", s |-> <<>>, v |-> NaN, d |-> NoDate]

StrCell(s) == [t |-> "str", s |-> s, v |-> NaN, d |-> NoDate]

NumCell(x) == [t |-> "num", s |-> <<>>, v |-> x, d |-> NoDate]

\* a native date cell
DateCell(d) == [t |-> "date", s |-> <<>>, v |-> NaN, d |-> d]

\* Python's None (a column that was not mapped)
NoneCell == [t |-> "none", s |-> <<>>, v |-> NaN, d |-> NoDate]

\* pd.isna(value)
IsNa(c) == c.t = "empty"

\* str(value) of a cell value; a date cell (a pandas Timestamp) prints as
\* "YYYY-MM-DD HH:MM:SS", an empty cell (NaN) as "nan"
PyStr(c) ==
    CASE c.t = "str" -> c.s
      [] c.t = "num" -> FloatRepr(c.v)
      [] c.t = "empty" -> NanWord
      [] c.t = "date" -> ReplaceChar(isoformat(c.d), 84, 32)
      [] OTHER -> <<78, 111, 110, 101>>

\* the literals "", "-", "--" that to_float_safe maps to 0.0
BlankNumbers == { <<>>, <<45>>, <<45, 45>> }

\* to_float_safe, second attempt (the inner except branch): 0.0 when float() fails
to_float_safe_retry(r) == IF r.ok THEN r.v ELSE Zero

\* to_float_safe, first attempt on the cleaned text, second on str(v) with its commas
\* turned into points
to_float_safe_try(r, raw) ==
    IF r.ok THEN r.v ELSE to_float_safe_retry(PyFloat(ReplaceChar(raw, 44, 46)))

\* to_float_safe on raw = str(v)
to_float_safe_text(raw, s) ==
    IF s \in BlankNumbers THEN Zero
    ELSE to_float_safe_try(
             PyFloat(ReplaceChar(RemoveChar(ReplaceChar(s, 160, 32), 32), 44, 46)), raw)

\* to_float_safe(v)
to_float_safe(v) ==
    IF v.t = "none" THEN Zero ELSE to_float_safe_text(PyStr(v), Strip(PyStr(v)))

----------------------------------------------------------------------------
(* OperationDTO (src/OperationDTO.py)                                      *)

\* the float a float field holds after to_float_safe(field) in __post_init__
Refloat(x) == to_float_safe(NumCell(x))

\* the fields __post_init__ passes through to_float_safe
CoercedFields == {"quantity", "aci", "commission"}

\* OperationDTO.__post_init__: the date is a datetime (or None) in every caller of this
\* repository, so only the sort key and the three coercions act
post_init(op) ==
    [n \in DOMAIN op |->
        IF n \in CoercedFields THEN Refloat(op[n])
        ELSE IF n = "sort_key" THEN (IF op.date # NoDate THEN isoformat(op.date) ELSE <<>>)
        ELSE op[n]]

\* OperationDTO(...)
OperationDTO(date, operation_type, payment_sum, currency, ticker, isin, reg_number, price, quantity, aci, comment, operation_id, commission) ==
    post_init([ date |-> date,
                operation_type |-> operation_type,
                payment_sum |-> payment_sum,
                currency |-> currency,
                ticker |-> ticker,
                isin |-> isin,
                reg_number |-> reg_number,
                price |-> price,
                quantity |-> quantity,
                aci |-> aci,
                comment |-> comment,
                operation_id |-> operation_id,
                commission |-> commission,
                sort_key |-> <<>> ])

\* the "date" entry of a serialised operation: text, or None
DateText(s) == [isnone |-> FALSE, s |-> s]

DateNone == [isnone |-> TRUE, s |-> <<>>]

\* OperationDTO.to_dict
to_dict(op) ==
    [ date |-> IF op.date # NoDate THEN DateText(isoformat(op.date)) ELSE DateNone,
      operation_type |-> op.operation_type,
      payment_sum |-> op.payment_sum,
      currency |-> op.currency,
      ticker |-> op.ticker,
      isin |-> op.isin,
      reg_number |-> op.reg_number,
      price |-> op.price,
      quantity |-> op.quantity,
      aci |-> op.aci,
      comment |-> op.comment,
      operation_id |-> op.operation_id,
      commission |-> op.commission ]

----------------------------------------------------------------------------
(* Deduplication and ordering (src/services/full_statement_xls.py)         *)

\* "id:", "auto:" and "|"
IdPrefix == <<105, 100, 58>>

AutoPrefix == <<97, 117, 116, 111, 58>>

Bar == <<124>>

\* _op_key with the ticker left out of the composite key
op_key_without_ticker(op) ==
    LET oid == Strip(op.operation_id)
        date_part == IF op.date # NoDate THEN isoformat(op.date) ELSE <<>>
        sum_part == FloatRepr(op.payment_sum)
    IN  IF oid # <<>> THEN IdPrefix \o oid
        ELSE AutoPrefix \o date_part \o Bar \o op.operation_type \o Bar \o sum_part
             \o Bar \o op.isin

\* _op_key(op)
op_key(op) ==
    LET oid == Strip(op.operation_id)
        date_part == IF op.date # NoDate THEN isoformat(op.date) ELSE <<>>
        sum_part == FloatRepr(op.payment_sum)
    IN  IF oid # <<>> THEN IdPrefix \o oid
        ELSE AutoPrefix \o date_part \o Bar \o op.operation_type \o Bar \o sum_part
             \o Bar \o op.ticker \o Bar \o op.isin

\* the loop of _dedupe_ops written as removal from the list being iterated: after a
\* duplicate is removed the iterator steps over the element that follows it
RECURSIVE DedupeSkippingNext(_, _, _)
DedupeSkippingNext(ops, i, seen) ==
    IF i > Len(ops) THEN <<>>
    ELSE LET k == op_key(ops[i])
         IN  IF k \in seen
             THEN (IF i + 1 <= Len(ops)
                   THEN <<ops[i + 1]>> \o DedupeSkippingNext(ops, i + 2, seen)
                   ELSE <<>>)
             ELSE <<ops[i]>> \o DedupeSkippingNext(ops, i + 1, seen \cup {k})

\* the loop of _dedupe_ops from position i on, with the keys seen so far
RECURSIVE DedupeFrom(_, _, _)
DedupeFrom(ops, i, seen) ==
    IF i > Len(ops) THEN <<>>
    ELSE LET k == op_key(ops[i])
         IN  IF k \in seen THEN DedupeFrom(ops, i + 1, seen)
             ELSE <<ops[i]>> \o DedupeFrom(ops, i + 1, seen \cup {k})

\* _dedupe_ops(ops)[0]; the second component is the length of the first
dedupe_ops(ops) == DedupeFrom(ops, 1, {})

\* _sort_key_for_operation(op_dict)
sort_key_for_operation(op_dict) ==
    LET date_val == op_dict.date
        iso == fromisoformat(date_val.s)
        dmy == strptime(FirstWord(date_val.s), F_dmY)
        dt == IF date_val.isnone THEN DatetimeMin
              ELSE IF iso.ok THEN iso.d
              ELSE IF dmy.ok THEN dmy.d
              ELSE DatetimeMin
    IN  [dt |-> dt, op_type |-> op_dict.operation_type]

\* the comparison of sort keys by their datetime alone
KeyLessByDate(a, b) == DtLess(a.dt, b.dt)

\* a < b on sort keys (tuple comparison)
KeyLess(a, b) ==
    \/ DtLess(a.dt, b.dt)
    \/ a.dt = b.dt /\ StrLess(a.op_type, b.op_type)

\* x inserted into the sorted list s after every element not greater than it
RECURSIVE InsertSorted(_, _)
InsertSorted(s, x) ==
    IF s = <<>> THEN <<x>>
    ELSE IF KeyLess(sort_key_for_operation(x), sort_key_for_operation(Head(s)))
         THEN <<x>> \o s
         ELSE <<Head(s)>> \o InsertSorted(Tail(s), x)

\* list.sort(key=_sort_key_for_operation): a stable sort. No comparison raises: every
\* key is a (naive datetime, str) pair
RECURSIVE SortOperations(_)
SortOperations(s) ==
    IF s = <<>> THEN <<>>
    ELSE InsertSorted(SortOperations(SubSeq(s, 1, Len(s) - 1)), s[Len(s)])

----------------------------------------------------------------------------
(* Cash-movement amount extraction (src/parsers/xls_parsers/xls_fin_ops.py) *)

\* s[p..] is one or more groups of a separator and three digits, then a comma and a digit
RECURSIVE GroupsThenComma(_, _, _)
GroupsThenComma(s, p, sep) ==
    /\ p + 3 <= Len(s)
    /\ s[p] = sep
    /\ DigitsAt(s, p + 1, p + 3)
    /\ \/ (p + 5 <= Len(s) /\ s[p + 4] = 44 /\ IsDigit(s[p + 5]))
       \/ GroupsThenComma(s, p + 4, sep)

\* re.search(r'\d{1,3}(?:<sep>\d{3})+,\d+', s)
GroupedNumberIn(s, sep) ==
    \E i \in 1..Len(s) : IsDigit(s[i]) /\ GroupsThenComma(s, i + 1, sep)

\* re.sub(r'[^\d\.\-,]', '', s)
RECURSIVE KeepAmountChars(_)
KeepAmountChars(s) ==
    IF s = <<>> THEN <<>>
    ELSE IF IsDigit(Head(s)) \/ Head(s) \in {46, 45, 44}
         THEN <<Head(s)>> \o KeepAmountChars(Tail(s))
         ELSE KeepAmountChars(Tail(s))

\* number of occurrences of character a in s
CountChar(s, a) == Cardinality({i \in 1..Len(s) : s[i] = a})

\* an Optional[float]
NoFloat == [isnone |-> TRUE, v |-> Zero]

SomeFloat(x) == [isnone |-> FALSE, v |-> x]

\* float(amount_str), None when it raises
AmountOfFloat(r) == IF r.ok THEN SomeFloat(r.v) ELSE NoFloat

\* the separators of the kept characters normalised, then float()
AmountOfKept(s) ==
    AmountOfFloat(PyFloat(
        IF GroupedNumberIn(s, 46) THEN ReplaceChar(RemoveChar(s, 46), 44, 46)
        ELSE IF GroupedNumberIn(s, 32) THEN ReplaceChar(RemoveChar(s, 32), 44, 46)
        ELSE IF CountChar(s, 44) = 1 THEN ReplaceChar(s, 44, 46)
        ELSE s))

\* the text branch of _extract_amount: dashes to "-", everything but digits . - , dropped,
\* the separators normalised, then float()
AmountFromText(text) ==
    AmountOfKept(KeepAmountChars(ReplaceChar(ReplaceChar(Strip(text), 8211, 45), 8722, 45)))

\* _extract_amount on the cell of the amount column
AmountOfCell(amount_val) ==
    IF IsNa(amount_val) \/ Strip(PyStr(amount_val)) = <<>> THEN NoFloat
    ELSE IF amount_val.t = "num" THEN SomeFloat(amount_val.v)
    ELSE AmountFromText(PyStr(amount_val))

\* the amount of a row as _process_row_with_date_inheritance resolves it:
\* Decimal(str(raw_amount)), or Decimal("0") when raw_amount is None
ResolvedAmount(raw_amount) == IF raw_amount.isnone THEN Zero ELSE raw_amount.v

----------------------------------------------------------------------------
(* Calls of the pure functions on bounded inputs                           *)

\* value of the variables a specification does not use
Idle == <<>>

\* all texts over the alphabet of at most n characters
TextsUpTo(alphabet, n) == UNION { [1..k -> alphabet] : k \in 0..n }

\* longest enumerated number text
MaxCoerceLen == 3

\* "1", "-", ",", ".", " ", "x"
CoerceAlphabet == {49, 45, 44, 46, 32, 120}

\* number texts of particular shapes:
\*   "inf"
\*   "nan"
\*   "NaN"
\*   "-inf"
\*   "Infinity"
\*   "1e999"
\*   "1e5"
\*   "1 234,56"
\*   "1.234,56"
\*   "unicode minus 5"
\*   "abc"
\*   "1 NBSP 000"
\*   "12.5"
\*   "-0,5"
CoerceSpecimens ==
    { <<105, 110, 102>>,
      <<110, 97, 110>>,
      <<78, 97, 78>>,
      <<45, 105, 110, 102>>,
      <<73, 110, 102, 105, 110, 105, 116, 121>>,
      <<49, 101, 57, 57, 57>>,
      <<49, 101, 53>>,
      <<49, 32, 50, 51, 52, 44, 53, 54>>,
      <<49, 46, 50, 51, 52, 44, 53, 54>>,
      <<8722, 53>>,
      <<97, 98, 99>>,
      <<49, 160, 48, 48, 48>>,
      <<49, 50, 46, 53>>,
      <<45, 48, 44, 53>> }

CoerceInputs == TextsUpTo(CoerceAlphabet, MaxCoerceLen) \cup CoerceSpecimens

\* what a call returned: the function, whether it raised, and the value
Returned(fn, value) == [fn |-> fn, raised |-> FALSE, value |-> value]

NotReturned == [fn |-> "", raised |-> FALSE, value |-> Zero]

InitCoerce ==
    /\ pc = "coerce"
    /\ arg \in CoerceInputs
    /\ ret = NotReturned
    /\ fin = Idle /\ trd = Idle /\ trf = Idle /\ par = Idle

\* to_float_safe(arg) on a text cell
CallToFloatSafe ==
    /\ pc = "coerce"
    /\ ret' = Returned("to_float_safe", to_float_safe(StrCell(arg)))
    /\ pc' = "coerced"
    /\ UNCHANGED <<arg, fin, trd, trf, par>>

\* _extract_amount on a row whose amount cell holds the text arg, and the amount the row
\* processing resolves from it
CallExtractAmount ==
    /\ pc = "coerce"
    /\ ret' = Returned("_extract_amount", ResolvedAmount(AmountOfCell(StrCell(arg))))
    /\ pc' = "coerced"
    /\ UNCHANGED <<arg, fin, trd, trf, par>>

NextCoerce == CallToFloatSafe \/ CallExtractAmount

SpecCoerce == InitCoerce /\ [][NextCoerce]_vars

\* longest text put before and after a phrase
MaxPad == 1

\* " " and "х"
PadAlphabet == {32, 1093}

Pads == TextsUpTo(PadAlphabet, MaxPad)

\* str.swapcase() on one code point
SwapCase(c) == IF Lower(c) = c THEN Upper(c) ELSE Lower(c)

\* a phrase as written, lower-cased, upper-cased and with every letter's case swapped
Casings(s) == { s, LowerStr(s), UpperStr(s), [i \in 1..Len(s) |-> SwapCase(s[i])] }

\* the labels the classifier is called on are built from:
\*   "НДФЛ"
\*   "Возмещение"
\*   "Дивиденды"
\*   "Купонный доход"
\*   "Погашение купона"
\*   "Расчеты по сделке"
\*   "Комиссия по сделке"
\*   "НКД по сделке"
\*   "Покупка/Продажа"
\*   "Покупка/Продажа (репо)"
\*   "Переводы между площадками"
\*   "Перевод"
\*   "НДФЛ Дивиденды"
\*   "Возмещение НДФЛ"
\*   "Купонный доход НДФЛ"
\*   "Прочее"
\*   ""
LabelPhrases ==
    { <<1053, 1044, 1060, 1051>>,
      <<1042, 1086, 1079, 1084, 1077, 1097, 1077, 1085, 1080, 1077>>,
      <<1044, 1080, 1074, 1080, 1076, 1077, 1085, 1076, 1099>>,
      <<1050, 1091, 1087, 1086, 1085, 1085, 1099, 1081, 32, 1076, 1086, 1093, 1086, 1076>>,
      <<1055, 1086, 1075, 1072, 1096, 1077, 1085, 1080, 1077, 32, 1082, 1091, 1087, 1086, 1085, 1072>>,
      <<1056, 1072, 1089, 1095, 1077, 1090, 1099, 32, 1087, 1086, 32, 1089, 1076, 1077, 1083, 1082, 1077>>,
      <<1050, 1086, 1084, 1080, 1089, 1089, 1080, 1103, 32, 1087, 1086, 32, 1089, 1076, 1077, 1083, 1082, 1077>>,
      <<1053, 1050, 1044, 32, 1087, 1086, 32, 1089, 1076, 1077, 1083, 1082, 1077>>,
      <<1055, 1086, 1082, 1091, 1087, 1082, 1072, 47, 1055, 1088, 1086, 1076, 1072, 1078, 1072>>,
      <<1055, 1086, 1082, 1091, 1087, 1082, 1072, 47, 1055, 1088, 1086, 1076, 1072, 1078, 1072, 32, 40, 1088, 1077, 1087, 1086, 41>>,
      <<1055, 1077, 1088, 1077, 1074, 1086, 1076, 1099, 32, 1084, 1077, 1078, 1076, 1091, 32, 1087, 1083, 1086, 1097, 1072, 1076, 1082, 1072, 1084, 1080>>,
      <<1055, 1077, 1088, 1077, 1074, 1086, 1076>>,
      <<1053, 1044, 1060, 1051, 32, 1044, 1080, 1074, 1080, 1076, 1077, 1085, 1076, 1099>>,
      <<1042, 1086, 1079, 1084, 1077, 1097, 1077, 1085, 1080, 1077, 32, 1053, 1044, 1060, 1051>>,
      <<1050, 1091, 1087, 1086, 1085, 1085, 1099, 1081, 32, 1076, 1086, 1093, 1086, 1076, 32, 1053, 1044, 1060, 1051>>,
      <<1055, 1088, 1086, 1095, 1077, 1077>>,
      <<>> }

ClassifierLabels ==
    { pre \o body \o suf : pre \in Pads, suf \in Pads,
                           body \in UNION { Casings(p) : p \in LabelPhrases } }

\* the comments:
\*   ""
\*   "выплата дивидендов"
\*   "погашение купона"
ClassifierComments ==
    { <<>>,
      <<1074, 1099, 1087, 1083, 1072, 1090, 1072, 32, 1076, 1080, 1074, 1080, 1076, 1077, 1085, 1076, 1086, 1074>>,
      <<1087, 1086, 1075, 1072, 1096, 1077, 1085, 1080, 1077, 32, 1082, 1091, 1087, 1086, 1085, 1072>> }

\* the signed amounts: -5.0, 0.0, 5.0
ClassifierAmounts == { Num(-5, 0), Zero, Num(5, 0) }

InitClassifier ==
    /\ pc = "classify"
    /\ arg \in [label : ClassifierLabels, comment : ClassifierComments,
                amount : ClassifierAmounts]
    /\ ret = NotReturned
    /\ fin = Idle /\ trd = Idle /\ trf = Idle /\ par = Idle

\* OperationClassifier.determine_operation_type(label, comment, amount)
CallDetermineOperationType ==
    /\ pc = "classify"
    /\ ret' = Returned("determine_operation_type",
                       determine_operation_type(arg.label, arg.comment, arg.amount))
    /\ pc' = "classified"
    /\ UNCHANGED <<arg, fin, trd, trf, par>>

\* OperationClassifier.should_skip_operation(label, comment, label_source = label)
CallShouldSkipOperation ==
    /\ pc = "classify"
    /\ ret' = Returned("should_skip_operation",
                       should_skip_operation(arg.label, arg.comment, arg.label))
    /\ pc' = "classified"
    /\ UNCHANGED <<arg, fin, trd, trf, par>>

NextClassifier == CallDetermineOperationType \/ CallShouldSkipOperation

SpecClassifier == InitClassifier /\ [][NextClassifier]_vars

\* longest operation list handed to _dedupe_ops
MaxOps == 3

\* 2023-03-15 00:00:00 and 2023-03-16 10:30:00
Day1 == Datetime(2023, 3, 15, 0, 0, 0)

Day2 == Datetime(2023, 3, 16, 10, 30, 0)

\* "SBER"
T_SBER == <<83, 66, 69, 82>>

\* "RU0009029540"
T_ISIN == <<82, 85, 48, 48, 48, 57, 48, 50, 57, 53, 52, 48>>

\* "T1"
T_ID1 == <<84, 49>>

\* " T1 "
T_ID1_padded == <<32, 84, 49, 32>>

\* "T2"
T_ID2 == <<84, 50>>

\* "row 1"
T_row1 == <<114, 111, 119, 32, 49>>

\* "row 2"
T_row2 == <<114, 111, 119, 32, 50>>


\* an operation with the fields the dedup key reads and a comment telling rows apart
PoolOp(f) ==
    OperationDTO(f[1], f[2], f[3], <<>>, f[4], f[5], <<>>, Zero, Zero, Zero, f[7], f[6], Zero)

\* date, kind, sum, ticker, isin, id, comment of operations that agree or differ in one
\* key field at a time
PoolFields ==
    { <<Day1, K_dividend, Num(10, 0), <<>>, <<>>, <<>>, T_row1>>,
      <<Day1, K_dividend, Num(10, 0), <<>>, <<>>, <<>>, T_row2>>,
      <<Day2, K_dividend, Num(10, 0), <<>>, <<>>, <<>>, T_row1>>,
      <<Day1, K_coupon, Num(10, 0), <<>>, <<>>, <<>>, T_row1>>,
      <<Day1, K_dividend, Num(20, 0), <<>>, <<>>, <<>>, T_row1>>,
      <<Day1, K_dividend, Num(10, 0), T_SBER, <<>>, <<>>, T_row1>>,
      <<Day1, K_dividend, Num(10, 0), <<>>, T_ISIN, <<>>, T_row1>>,
      <<Day1, K_buy, Num(10, 0), <<>>, <<>>, T_ID1, T_row1>>,
      <<Day2, K_sale, Num(20, 0), <<>>, <<>>, T_ID1_padded, T_row2>>,
      <<Day1, K_buy, Num(10, 0), <<>>, <<>>, T_ID2, T_row1>> }

OpPool == { PoolOp(f) : f \in PoolFields }

InitDedupe ==
    /\ pc = "dedupe"
    /\ arg \in UNION { [1..n -> OpPool] : n \in 0..MaxOps }
    /\ ret = [first |-> <<>>, second |-> <<>>]
    /\ fin = Idle /\ trd = Idle /\ trf = Idle /\ par = Idle

\* _dedupe_ops(arg)
CallDedupe ==
    /\ pc = "dedupe"
    /\ ret' = [ret EXCEPT !.first = dedupe_ops(arg)]
    /\ pc' = "deduped"
    /\ UNCHANGED <<arg, fin, trd, trf, par>>

\* _dedupe_ops on the list the first call returned
CallDedupeAgain ==
    /\ pc = "deduped"
    /\ ret' = [ret EXCEPT !.second = dedupe_ops(ret.first)]
    /\ pc' = "deduped_twice"
    /\ UNCHANGED <<arg, fin, trd, trf, par>>

NextDedupe == CallDedupe \/ CallDedupeAgain

SpecDedupe == InitDedupe /\ [][NextDedupe]_vars

----------------------------------------------------------------------------
(* Workbooks and the frames pandas reads from them                         *)

\* A workbook is [path, readable, sheets]: sheets is a sequence of [name, grid], a grid
\* a sequence of rows of the same width, a row a sequence of cells. A frame (DataFrame)
\* is a grid; positions in the source are 0-based and are kept 0-based in every value
\* (header_row, column_mapping), so row i of the source is df[i + 1] here.

\* the outcome of a call that may raise: the exception's message or the returned value
Raised(msg) == [ok |-> FALSE, err |-> msg, v |-> <<>>]

Done(v) == [ok |-> TRUE, err |-> <<>>, v |-> v]

\* s.endswith(suffix)
EndsWith(s, suffix) ==
    Len(s) >= Len(suffix) /\ SubSeq(s, Len(s) - Len(suffix) + 1, Len(s)) = suffix

\* Path(file_path).suffix: the text from the last point on
Suffix(file_path) ==
    IF \E i \in 1..Len(file_path) : file_path[i] = 46
    THEN SubSeq(file_path,
                CHOOSE i \in 1..Len(file_path) :
                    file_path[i] = 46 /\ \A j \in (i + 1)..Len(file_path) : file_path[j] # 46,
                Len(file_path))
    ELSE <<>>

\* ".xls"
DotXls == <<46, 120, 108, 115>>

\* ".xlsx"
DotXlsx == <<46, 120, 108, 115, 120>>

\* "Неподдерживаемый формат файла: "
E_format_file == <<1053, 1077, 1087, 1086, 1076, 1076, 1077, 1088, 1078, 1080, 1074, 1072, 1077, 1084, 1099, 1081, 32, 1092, 1086, 1088, 1084, 1072, 1090, 32, 1092, 1072, 1081, 1083, 1072, 58, 32>>

\* "Неподдерживаемый формат: "
E_format == <<1053, 1077, 1087, 1086, 1076, 1076, 1077, 1088, 1078, 1080, 1074, 1072, 1077, 1084, 1099, 1081, 32, 1092, 1086, 1088, 1084, 1072, 1090, 58, 32>>

\* "Не найдено ни одного листа в файле Excel"
E_no_sheets_excel == <<1053, 1077, 32, 1085, 1072, 1081, 1076, 1077, 1085, 1086, 32, 1085, 1080, 32, 1086, 1076, 1085, 1086, 1075, 1086, 32, 1083, 1080, 1089, 1090, 1072, 32, 1074, 32, 1092, 1072, 1081, 1083, 1077, 32, 69, 120, 99, 101, 108>>

\* "Не найдено ни одного листа"
E_no_sheets == <<1053, 1077, 32, 1085, 1072, 1081, 1076, 1077, 1085, 1086, 32, 1085, 1080, 32, 1086, 1076, 1085, 1086, 1075, 1086, 32, 1083, 1080, 1089, 1090, 1072>>

\* "Не удалось найти строку с заголовками"
E_no_header == <<1053, 1077, 32, 1091, 1076, 1072, 1083, 1086, 1089, 1100, 32, 1085, 1072, 1081, 1090, 1080, 32, 1089, 1090, 1088, 1086, 1082, 1091, 32, 1089, 32, 1079, 1072, 1075, 1086, 1083, 1086, 1074, 1082, 1072, 1084, 1080>>

\* "File is not a zip file": what the engine says of a file it cannot open
E_unreadable == <<70, 105, 108, 101, 32, 105, 115, 32, 110, 111, 116, 32, 97, 32, 122, 105, 112, 32, 102, 105, 108, 101>>

\* "single positional indexer is out-of-bounds": IndexError of DataFrame.iloc
E_out_of_bounds == <<115, 105, 110, 103, 108, 101, 32, 112, 111, 115, 105, 116, 105, 111, 110, 97, 108, 32, 105, 110, 100, 101, 120, 101, 114, 32, 105, 115, 32, 111, 117, 116, 45, 111, 102, 45, 98, 111, 117, 110, 100, 115>>

\* _detect_engine(file_path); the message prefix differs between the parsers
detect_engine(file_path, prefix) ==
    IF EndsWith(LowerStr(file_path), DotXls) THEN Done("xlrd")
    ELSE IF EndsWith(LowerStr(file_path), DotXlsx) THEN Done("openpyxl")
    ELSE Raised(prefix \o Suffix(file_path))

\* pd.ExcelFile(file_path, engine).sheet_names
sheet_names(book) == [i \in 1..Len(book.sheets) |-> book.sheets[i].name]

\* the grid of the sheet called name (the first one of that name)
GridOf(book, name) ==
    book.sheets[CHOOSE i \in 1..Len(book.sheets) :
                    /\ book.sheets[i].name = name
                    /\ \A j \in 1..(i - 1) : book.sheets[j].name # name].grid

\* pd.read_excel(..., sheet_name): the first row of the sheet becomes the column labels
read_excel(grid) == IF grid = <<>> THEN <<>> ELSE Tail(grid)

\* number of columns of a frame
Width(df) == IF df = <<>> THEN 0 ELSE Len(df[1])

\* the rows that are not empty throughout
RECURSIVE DropNaRows(_)
DropNaRows(df) ==
    IF df = <<>> THEN <<>>
    ELSE IF \A c \in 1..Len(Head(df)) : IsNa(Head(df)[c]) THEN DropNaRows(Tail(df))
    ELSE <<Head(df)>> \o DropNaRows(Tail(df))

\* the cells of row at the columns of set keep, in column order
RECURSIVE PickColumns(_, _, _)
PickColumns(row, c, keep) ==
    IF c > Len(row) THEN <<>>
    ELSE IF c \in keep THEN <<row[c]>> \o PickColumns(row, c + 1, keep)
    ELSE PickColumns(row, c + 1, keep)

\* the columns that are not empty throughout
DropNaColumns(df) ==
    [i \in 1..Len(df) |->
        PickColumns(df[i], 1, { c \in 1..Width(df) : \E r \in 1..Len(df) : ~IsNa(df[r][c]) })]

\* _preprocess_dataframe: dropna(how='all') on rows, then on columns, then reset_index
preprocess_dataframe(df) == DropNaColumns(DropNaRows(df))

\* df.iloc[i].astype(str).str.lower().tolist()
LowerRow(row) == [c \in 1..Len(row) |-> LowerStr(PyStr(row[c]))]

\* any(phrase in val for val in row, for phrase in phrases)
RowMentions(row, phrases) ==
    \E c \in 1..Len(row) : \E p \in phrases : Contains(p, row[c])

\* first number of set S, none when S is empty
FirstOf(S, none) == IF S = {} THEN none ELSE CHOOSE i \in S : \A j \in S : i <= j

\* the largest element of a set of integers, none when it is empty
LastOf(S, none) == IF S = {} THEN none ELSE CHOOSE i \in S : \A j \in S : i >= j

----------------------------------------------------------------------------
(* XlsTradesParser (src/parsers/xls_parsers/xls_trades.py)                 *)

\* "сделки"
TRADES_SHEET_KEYWORDS == { <<1089, 1076, 1077, 1083, 1082, 1080>> }

\* "Завершенные сделки", "Сделки", "Trades"
TRADES_FALLBACK_NAMES == << <<1047, 1072, 1074, 1077, 1088, 1096, 1077, 1085, 1085, 1099, 1077, 32, 1089, 1076, 1077, 1083, 1082, 1080>>,
                            <<1057, 1076, 1077, 1083, 1082, 1080>>,
                            <<84, 114, 97, 100, 101, 115>> >>

\* a sheet locator that looks for the fallback names before the keywords
FindSheetByNameFirst(names, keywords, fallback_names, third, msg) ==
    IF \E j \in 1..Len(fallback_names) : \E i \in 1..Len(names) : names[i] = fallback_names[j]
    THEN Done(fallback_names[FirstOf({ j \in 1..Len(fallback_names) :
                                        \E i \in 1..Len(names) : names[i] = fallback_names[j] }, 0)])
    ELSE IF \E i \in 1..Len(names) : \E k \in keywords : Contains(k, LowerStr(names[i]))
    THEN Done(names[FirstOf({ i \in 1..Len(names) :
                                \E k \in keywords : Contains(k, LowerStr(names[i])) }, 0)])
    ELSE IF third # 0 THEN Done(names[third])
    ELSE IF names # <<>> THEN Done(names[1])
    ELSE Raised(msg)

\* a sheet locator: the first name containing a keyword once lower-cased, else the
\* first fallback name that is a sheet name, else the third-step choice, else ValueError
FindSheet(names, keywords, fallback_names, third, msg) ==
    IF \E i \in 1..Len(names) : \E k \in keywords : Contains(k, LowerStr(names[i]))
    THEN Done(names[FirstOf({ i \in 1..Len(names) :
                                \E k \in keywords : Contains(k, LowerStr(names[i])) }, 0)])
    ELSE IF \E j \in 1..Len(fallback_names) : \E i \in 1..Len(names) : names[i] = fallback_names[j]
    THEN Done(fallback_names[FirstOf({ j \in 1..Len(fallback_names) :
                                        \E i \in 1..Len(names) : names[i] = fallback_names[j] }, 0)])
    ELSE IF third # 0 THEN Done(names[third])
    ELSE IF names # <<>> THEN Done(names[1])
    ELSE Raised(msg)

\* XlsTradesParser._find_trades_sheet
find_trades_sheet(names) ==
    FindSheet(names, TRADES_SHEET_KEYWORDS, TRADES_FALLBACK_NAMES, 0, E_no_sheets_excel)

TRADES_HEADER_KEYWORDS ==
    \* trade_id: "№ сделки", "номер сделки", "id сделки"
    [ trade_id |-> { <<8470, 32, 1089, 1076, 1077, 1083, 1082, 1080>>,
        <<1085, 1086, 1084, 1077, 1088, 32, 1089, 1076, 1077, 1083, 1082, 1080>>,
        <<105, 100, 32, 1089, 1076, 1077, 1083, 1082, 1080>> },
    \* date_conclusion: "дата заключения", "заключен"
      date_conclusion |-> { <<1076, 1072, 1090, 1072, 32, 1079, 1072, 1082, 1083, 1102, 1095, 1077, 1085, 1080, 1103>>,
        <<1079, 1072, 1082, 1083, 1102, 1095, 1077, 1085>> },
    \* date_settlement: "дата расчетов", "расчетов"
      date_settlement |-> { <<1076, 1072, 1090, 1072, 32, 1088, 1072, 1089, 1095, 1077, 1090, 1086, 1074>>,
        <<1088, 1072, 1089, 1095, 1077, 1090, 1086, 1074>> },
    \* place: "место заключения", "место"
      place |-> { <<1084, 1077, 1089, 1090, 1086, 32, 1079, 1072, 1082, 1083, 1102, 1095, 1077, 1085, 1080, 1103>>,
        <<1084, 1077, 1089, 1090, 1086>> },
    \* isin: "isin", "рег.код", "код"
      isin |-> { <<105, 115, 105, 110>>,
        <<1088, 1077, 1075, 46, 1082, 1086, 1076>>,
        <<1082, 1086, 1076>> },
    \* asset_name: "актив", "наименование"
      asset_name |-> { <<1072, 1082, 1090, 1080, 1074>>,
        <<1085, 1072, 1080, 1084, 1077, 1085, 1086, 1074, 1072, 1085, 1080, 1077>> },
    \* quantity: "количество", "шт./грамм", "объем"
      quantity |-> { <<1082, 1086, 1083, 1080, 1095, 1077, 1089, 1090, 1074, 1086>>,
        <<1096, 1090, 46, 47, 1075, 1088, 1072, 1084, 1084>>,
        <<1086, 1073, 1098, 1077, 1084>> },
    \* price: "цена"
      price |-> { <<1094, 1077, 1085, 1072>> },
    \* amount: "сумма сделки", "стоимость"
      amount |-> { <<1089, 1091, 1084, 1084, 1072, 32, 1089, 1076, 1077, 1083, 1082, 1080>>,
        <<1089, 1090, 1086, 1080, 1084, 1086, 1089, 1090, 1100>> },
    \* nkd: "нкд", "в т.ч. нкд"
      nkd |-> { <<1085, 1082, 1076>>,
        <<1074, 32, 1090, 46, 1095, 46, 32, 1085, 1082, 1076>> },
    \* currency: "валюта расчетов", "валюта"
      currency |-> { <<1074, 1072, 1083, 1102, 1090, 1072, 32, 1088, 1072, 1089, 1095, 1077, 1090, 1086, 1074>>,
        <<1074, 1072, 1083, 1102, 1090, 1072>> },
    \* commission: "комиссия банка", "комиссия"
      commission |-> { <<1082, 1086, 1084, 1080, 1089, 1089, 1080, 1103, 32, 1073, 1072, 1085, 1082, 1072>>,
        <<1082, 1086, 1084, 1080, 1089, 1089, 1080, 1103>> },
    \* commission_currency: "валюта комиссии"
      commission_currency |-> { <<1074, 1072, 1083, 1102, 1090, 1072, 32, 1082, 1086, 1084, 1080, 1089, 1089, 1080, 1080>> },
    \* comment: "коммент", "примечание"
      comment |-> { <<1082, 1086, 1084, 1084, 1077, 1085, 1090>>,
        <<1087, 1088, 1080, 1084, 1077, 1095, 1072, 1085, 1080, 1077>> } ]

\* required_fields
TRADES_REQUIRED_FIELDS ==
    {"date_conclusion", "isin", "asset_name", "quantity", "price", "amount", "currency"}

\* fallback_positions restricted to the required fields, the only ones looked up in it
TRADES_FALLBACK_POSITIONS ==
    [date_conclusion |-> 2, isin |-> 4, asset_name |-> 5, quantity |-> 7, price |-> 8,
     amount |-> 9, currency |-> 10]

\* the marker phrases of the header row
\* "№ сделки", "номер сделки"
TRADE_ID_MARKERS == { <<8470, 32, 1089, 1076, 1077, 1083, 1082, 1080>>,
                      <<1085, 1086, 1084, 1077, 1088, 32, 1089, 1076, 1077, 1083, 1082, 1080>> }

\* "дата заключения", "заключен"
TRADE_DATE_MARKERS == { <<1076, 1072, 1090, 1072, 32, 1079, 1072, 1082, 1083, 1102, 1095, 1077, 1085, 1080, 1103>>,
                        <<1079, 1072, 1082, 1083, 1102, 1095, 1077, 1085>> }

\* "количество"
TRADE_QTY_MARKERS == { <<1082, 1086, 1083, 1080, 1095, 1077, 1089, 1090, 1074, 1086>> }

\* "isin"
TRADE_ISIN_MARKERS == { <<105, 115, 105, 110>> }

\* rows the header search looks at
HeaderScanRows == 20

\* XlsTradesParser._find_header_row: the first of the leading rows with all three
\* markers, else the first of them mentioning "isin", else -1
trades_find_header_row(df) ==
    FirstOf({ i \in 0..(Len(df) - 1) :
                /\ i < HeaderScanRows
                /\ RowMentions(LowerRow(df[i + 1]), TRADE_ID_MARKERS)
                /\ RowMentions(LowerRow(df[i + 1]), TRADE_DATE_MARKERS)
                /\ RowMentions(LowerRow(df[i + 1]), TRADE_QTY_MARKERS) },
            FirstOf({ i \in 0..(Len(df) - 1) :
                        /\ i < HeaderScanRows
                        /\ RowMentions(LowerRow(df[i + 1]), TRADE_ISIN_MARKERS) }, -1))

\* the first column whose header contains a keyword of the field, -1 when none does
trades_column_of(headers, field) ==
    FirstOf({ c \in 0..(Len(headers) - 1) :
                \E k \in TRADES_HEADER_KEYWORDS[field] : Contains(k, headers[c + 1]) }, -1)

\* the column_mapping of _detect_columns for the header texts: every field whose keyword
\* is in a header, and the fallback position of a required field that is in none when
\* the row is wide enough
trades_map_columns(headers) ==
    [field \in { f \in DOMAIN TRADES_HEADER_KEYWORDS :
                    \/ trades_column_of(headers, f) # -1
                    \/ f \in TRADES_REQUIRED_FIELDS
                       /\ Len(headers) > TRADES_FALLBACK_POSITIONS[f] } |->
        IF trades_column_of(headers, field) # -1 THEN trades_column_of(headers, field)
        ELSE TRADES_FALLBACK_POSITIONS[field]]

\* _detect_columns once the header row is known
trades_columns_at(df, header_row) ==
    IF header_row = -1 THEN Raised(E_no_header)
    ELSE Done(trades_map_columns(LowerRow(df[header_row + 1])))

\* XlsTradesParser._detect_columns
trades_detect_columns(df) == trades_columns_at(df, trades_find_header_row(df))

\* s[i..] starts with dd.mm.yyyy
DottedDateAt(s, i) ==
    /\ i + 9 <= Len(s)
    /\ DigitsAt(s, i, i + 1) /\ s[i + 2] = 46
    /\ DigitsAt(s, i + 3, i + 4) /\ s[i + 5] = 46
    /\ DigitsAt(s, i + 6, i + 9)

\* s[j..] starts with hh:mm, and with hh:mm:ss when seconds are asked for
ClockAt(s, j, seconds) ==
    /\ j + 4 <= Len(s)
    /\ DigitsAt(s, j, j + 1) /\ s[j + 2] = 58 /\ DigitsAt(s, j + 3, j + 4)
    /\ seconds => (j + 7 <= Len(s) /\ s[j + 5] = 58 /\ DigitsAt(s, j + 6, j + 7))

\* position after the whitespace run that starts at s[i]
RECURSIVE AfterSpaces(_, _)
AfterSpaces(s, i) == IF i <= Len(s) /\ IsSpace(s[i]) THEN AfterSpaces(s, i + 1) ELSE i

\* the pattern with the given number of groups (6, 5 or 3) matches at s[i..]
StampAt(s, i, groups) ==
    /\ DottedDateAt(s, i)
    /\ groups > 3 => /\ AfterSpaces(s, i + 10) > i + 10
                     /\ ClockAt(s, AfterSpaces(s, i + 10), groups = 6)

\* the two digits at s[j..]
TwoDigits(s, j) == DigitsValue(SubSeq(s, j, j + 1))

\* datetime(year, month, day[, hour, minute[, second]]) of the groups matched at s[i..],
\* the clock starting at s[j..]
StampValue(s, i, j, groups) ==
    MakeDatetime(DigitsValue(SubSeq(s, i + 6, i + 9)), TwoDigits(s, i + 3), TwoDigits(s, i),
                 IF groups > 3 THEN TwoDigits(s, j) ELSE 0,
                 IF groups > 3 THEN TwoDigits(s, j + 3) ELSE 0,
                 IF groups = 6 THEN TwoDigits(s, j + 6) ELSE 0)

\* re.search of one pattern: the leftmost position where it matches, 0 when nowhere
StampSearch(s, groups) == FirstOf({ i \in 1..Len(s) : StampAt(s, i, groups) }, 0)

\* "%d.%m.%Y %H:%M:%S", "%d.%m.%Y %H:%M", "%d.%m.%Y", "%Y-%m-%d %H:%M:%S", "%Y-%m-%d"
TRADES_DATE_FORMATS ==
    << F_dmY \o F_HM \o F_S, F_dmY \o F_HM, F_dmY, F_Ymd \o F_HM \o F_S, F_Ymd >>

\* the loop over the patterns of _parse_datetime: a match whose numbers are no date
\* (ValueError of datetime) passes on to the next pattern, and after the last pattern
\* to the strptime formats
RECURSIVE StampByPatterns(_, _)
StampByPatterns(s, patterns) ==
    IF patterns = <<>> THEN FirstFormat(s, TRADES_DATE_FORMATS)
    ELSE IF StampSearch(s, Head(patterns)) # 0
            /\ StampValue(s, StampSearch(s, Head(patterns)),
                          AfterSpaces(s, StampSearch(s, Head(patterns)) + 10),
                          Head(patterns)).ok
         THEN StampValue(s, StampSearch(s, Head(patterns)),
                         AfterSpaces(s, StampSearch(s, Head(patterns)) + 10), Head(patterns))
         ELSE StampByPatterns(s, Tail(patterns))

\* XlsTradesParser._parse_datetime(date_str) on text; ok = FALSE stands for None
trades_parse_datetime(date_str) ==
    IF date_str = <<>> THEN NoDatetime ELSE StampByPatterns(Strip(date_str), <<6, 5, 3>>)

\* XlsTradesParser._extract_field: "" for a field without a column, a column beyond the
\* row (IndexError) and an empty cell
trades_extract_field(row, column_mapping, field_name) ==
    IF field_name \notin DOMAIN column_mapping THEN <<>>
    ELSE IF column_mapping[field_name] >= Len(row) THEN <<>>
    ELSE IF IsNa(row[column_mapping[field_name] + 1]) THEN <<>>
    ELSE Strip(PyStr(row[column_mapping[field_name] + 1]))

\* the characters str.splitlines() breaks lines at
LineBreaks == {10, 11, 12, 13, 28, 29, 30, 133, 8232, 8233}

\* XlsTradesParser._extract_first_trade_id: the first line that is not blank, stripped
RECURSIVE extract_first_trade_id(_)
extract_first_trade_id(trade_id_str) ==
    IF trade_id_str = <<>> THEN <<>>
    ELSE IF FirstIn(trade_id_str, LineBreaks) = 0
         THEN Strip(trade_id_str)
    ELSE IF Strip(SubSeq(trade_id_str, 1,
                         FirstIn(trade_id_str, LineBreaks) - 1))
            # <<>>
         THEN Strip(SubSeq(trade_id_str, 1,
                           FirstIn(trade_id_str, LineBreaks) - 1))
    ELSE extract_first_trade_id(
             SubSeq(trade_id_str,
                    FirstIn(trade_id_str, LineBreaks) + 1,
                    Len(trade_id_str)))

\* "RUB"
RUB == <<82, 85, 66>>

\* "RUR", "РУБ", "РУБЛЬ"
ROUBLE_NAMES == { <<82, 85, 82>>, <<1056, 1059, 1041>>, <<1056, 1059, 1041, 1051, 1068>> }

\* the fields _process_row reads from a row
TRADES_ROW_FIELDS ==
    {"date_conclusion", "quantity", "price", "amount", "nkd", "currency", "commission",
     "isin", "asset_name", "trade_id", "comment"}

\* the fields _process_row passes through to_float_safe
TRADES_NUMBER_FIELDS == {"quantity", "price", "amount", "nkd", "commission"}

\* the outcome of one row: the counter it increments, the operation if it yields one,
\* and what it adds to total_commission
RowSkipped(counter) == [counter |-> counter, ops |-> <<>>, commission |-> Zero]

RowParsed(op, commission) == [counter |-> "parsed", ops |-> <<op>>, commission |-> commission]

\* _process_row after the date and the numbers are known; _extract_ticker_from_name is
\* called and its result dropped: the operation is built with ticker=""
trades_row_operation(text, trade_date, number) ==
    IF ~trade_date.ok THEN RowSkipped("skipped_no_date")
    ELSE IF FEq0(number.quantity) THEN RowSkipped("skipped_no_qty")
    ELSE RowParsed(
             OperationDTO(trade_date.d,
                          IF FGt0(number.quantity) THEN K_buy ELSE K_sale,
                          FAbs(number.amount),
                          IF UpperStr(text.currency) \in ROUBLE_NAMES THEN RUB ELSE text.currency,
                          <<>>,
                          text.isin,
                          <<>>,
                          number.price,
                          FAbs(number.quantity),
                          number.nkd,
                          text.comment,
                          extract_first_trade_id(text.trade_id),
                          number.commission),
             IF FEq0(number.commission) THEN Zero ELSE number.commission)

\* _process_row on the texts of its fields
trades_row_of_text(text) ==
    trades_row_operation(text, trades_parse_datetime(text.date_conclusion),
                         [f \in TRADES_NUMBER_FIELDS |-> to_float_safe(StrCell(text[f]))])

\* XlsTradesParser._process_row; nothing in its try block raises on such a row, so
\* skipped_invalid stays 0
trades_process_row(row, column_mapping) ==
    trades_row_of_text([f \in TRADES_ROW_FIELDS |-> trades_extract_field(row, column_mapping, f)])

\* self.stats of a new XlsTradesParser
TradesStats0 ==
    [ total_rows |-> 0, parsed |-> 0, skipped_no_date |-> 0, skipped_no_qty |-> 0,
      skipped_invalid |-> 0, total_commission |-> Zero, detected_sheet |-> <<>>,
      column_mapping |-> <<>> ]

\* the statistics with only the rows that yield an operation counted in total_rows
trades_count_parsed_row(stats, outcome) ==
    [stats EXCEPT !.total_rows = IF outcome.counter = "parsed" THEN @ + 1 ELSE @,
                  ![outcome.counter] = @ + 1,
                  !.total_commission = FAdd(@, outcome.commission)]

\* the statistics after one more row with the given outcome
trades_count_row(stats, outcome) ==
    [stats EXCEPT !.total_rows = @ + 1,
                  ![outcome.counter] = @ + 1,
                  !.total_commission = FAdd(@, outcome.commission)]

\* operations and statistics after one more row
trades_add_row(acc, outcome) ==
    [ops |-> acc.ops \o outcome.ops, stats |-> trades_count_row(acc.stats, outcome)]

\* rows one pass of _process_rows handles at most
TradesRowLimit == 5000

\* the loop of _process_rows from row i on: the operations and the statistics
RECURSIVE trades_rows_from(_, _, _, _, _)
trades_rows_from(df, column_mapping, i, last, acc) ==
    IF i >= last THEN acc
    ELSE trades_rows_from(df, column_mapping, i + 1, last,
                          trades_add_row(acc, trades_process_row(df[i + 1], column_mapping)))

\* XlsTradesParser._process_rows
trades_process_rows(df, column_mapping, stats, header_row) ==
    trades_rows_from(df, column_mapping,
                     IF header_row # -1 THEN header_row + 1 ELSE 0,
                     IF Len(df) < (IF header_row # -1 THEN header_row + 1 ELSE 0) + TradesRowLimit
                     THEN Len(df)
                     ELSE (IF header_row # -1 THEN header_row + 1 ELSE 0) + TradesRowLimit,
                     [ops |-> <<>>, stats |-> stats])

\* the except branch returning self.stats as it is
WithoutError(stats, msg) == stats

\* {"error": str(e), **self.stats}
WithError(stats, msg) ==
    [k \in DOMAIN stats \cup {"error"} |-> IF k = "error" THEN msg ELSE stats[k]]

\* what parse() returns from its except branch
Failure(stats, msg) == [ops |-> <<>>, stats |-> WithError(stats, msg)]

\* parse() from _detect_columns on
trades_parse_columns(df, stats, header_row, columns) ==
    IF ~columns.ok THEN Failure(stats, columns.err)
    ELSE trades_process_rows(df, columns.v, [stats EXCEPT !.column_mapping = columns.v],
                             header_row)

\* parse() on the frame read from the sheet; _detect_columns and _process_rows both
\* call _find_header_row on the same frame
trades_parse_frame(df, stats, header_row) ==
    trades_parse_columns(df, stats, header_row, trades_columns_at(df, header_row))

\* parse() once the sheet is chosen
trades_parse_sheet(book, sheet) ==
    IF ~sheet.ok THEN Failure(TradesStats0, sheet.err)
    ELSE trades_parse_frame(preprocess_dataframe(read_excel(GridOf(book, sheet.v))),
                            [TradesStats0 EXCEPT !.detected_sheet = sheet.v],
                            trades_find_header_row(
                                preprocess_dataframe(read_excel(GridOf(book, sheet.v)))))

\* parse() once the engine is chosen
trades_parse_with(book, engine) ==
    IF ~engine.ok THEN Failure(TradesStats0, engine.err)
    ELSE IF ~book.readable THEN Failure(TradesStats0, E_unreadable)
    ELSE trades_parse_sheet(book, find_trades_sheet(sheet_names(book)))

\* XlsTradesParser.parse / parse_trades_from_xls: [ops, stats]
trades_parse(book) == trades_parse_with(book, detect_engine(book.path, E_format_file))

----------------------------------------------------------------------------
(* XlsTransfersParser (src/parsers/xls_parsers/xls_transfers.py)           *)

\* "неторговые операции", "non-trade operations", "неторговые", "операции с ценными бумагами", "non trade operations", "неторговая операция", "non-trade operation", "конвертация"
TRANSFERS_SHEET_KEYWORDS ==
    { <<1085, 1077, 1090, 1086, 1088, 1075, 1086, 1074, 1099, 1077, 32, 1086, 1087, 1077, 1088, 1072, 1094, 1080, 1080>>,
    <<110, 111, 110, 45, 116, 114, 97, 100, 101, 32, 111, 112, 101, 114, 97, 116, 105, 111, 110, 115>>,
    <<1085, 1077, 1090, 1086, 1088, 1075, 1086, 1074, 1099, 1077>>,
    <<1086, 1087, 1077, 1088, 1072, 1094, 1080, 1080, 32, 1089, 32, 1094, 1077, 1085, 1085, 1099, 1084, 1080, 32, 1073, 1091, 1084, 1072, 1075, 1072, 1084, 1080>>,
    <<110, 111, 110, 32, 116, 114, 97, 100, 101, 32, 111, 112, 101, 114, 97, 116, 105, 111, 110, 115>>,
    <<1085, 1077, 1090, 1086, 1088, 1075, 1086, 1074, 1072, 1103, 32, 1086, 1087, 1077, 1088, 1072, 1094, 1080, 1103>>,
    <<110, 111, 110, 45, 116, 114, 97, 100, 101, 32, 111, 112, 101, 114, 97, 116, 105, 111, 110>>,
    <<1082, 1086, 1085, 1074, 1077, 1088, 1090, 1072, 1094, 1080, 1103>> }

\* "Неторговые операции", "Конвертации", "Non-trade operations"
TRANSFERS_EXACT_NAMES ==
    << <<1053, 1077, 1090, 1086, 1088, 1075, 1086, 1074, 1099, 1077, 32, 1086, 1087, 1077, 1088, 1072, 1094, 1080, 1080>>,
    <<1050, 1086, 1085, 1074, 1077, 1088, 1090, 1072, 1094, 1080, 1080>>,
    <<78, 111, 110, 45, 116, 114, 97, 100, 101, 32, 111, 112, 101, 114, 97, 116, 105, 111, 110, 115>> >>

\* "неторг", "non-trade", "конверт", "transfer"
TRANSFERS_LOOSE_KEYWORDS ==
    { <<1085, 1077, 1090, 1086, 1088, 1075>>,
    <<110, 111, 110, 45, 116, 114, 97, 100, 101>>,
    <<1082, 1086, 1085, 1074, 1077, 1088, 1090>>,
    <<116, 114, 97, 110, 115, 102, 101, 114>> }

\* XlsTransfersParser._find_transfers_sheet: the third step is a second keyword search
find_transfers_sheet(names) ==
    FindSheet(names, TRANSFERS_SHEET_KEYWORDS, TRANSFERS_EXACT_NAMES,
              FirstOf({ i \in 1..Len(names) :
                          \E k \in TRANSFERS_LOOSE_KEYWORDS : Contains(k, LowerStr(names[i])) }, 0),
              E_no_sheets)

\* "наименование операции"
OPERATION_NAME_HEADER == <<1085, 1072, 1080, 1084, 1077, 1085, 1086, 1074, 1072, 1085, 1080, 1077, 32, 1086, 1087, 1077, 1088, 1072, 1094, 1080, 1080>>

\* "дата"
DATE_HEADER == { <<1076, 1072, 1090, 1072>> }

\* "актив", "инструмент", "наименование"
ASSET_HEADERS ==
    { <<1072, 1082, 1090, 1080, 1074>>,
    <<1080, 1085, 1089, 1090, 1088, 1091, 1084, 1077, 1085, 1090>>,
    <<1085, 1072, 1080, 1084, 1077, 1085, 1086, 1074, 1072, 1085, 1080, 1077>> }

\* "комментарий", "примечание", "основание"
COMMENT_HEADERS ==
    { <<1082, 1086, 1084, 1084, 1077, 1085, 1090, 1072, 1088, 1080, 1081>>,
    <<1087, 1088, 1080, 1084, 1077, 1095, 1072, 1085, 1080, 1077>>,
    <<1086, 1089, 1085, 1086, 1074, 1072, 1085, 1080, 1077>> }

\* "зачисление", "списание", "количество", "кол-во"
QUANTITY_HEADERS ==
    { <<1079, 1072, 1095, 1080, 1089, 1083, 1077, 1085, 1080, 1077>>,
    <<1089, 1087, 1080, 1089, 1072, 1085, 1080, 1077>>,
    <<1082, 1086, 1083, 1080, 1095, 1077, 1089, 1090, 1074, 1086>>,
    <<1082, 1086, 1083, 45, 1074, 1086>> }

\* "перевод"
TRANSFER_MARKER == <<1087, 1077, 1088, 1077, 1074, 1086, 1076>>

\* "конвертация", "конверсия"
CONVERSION_MARKERS == { <<1082, 1086, 1085, 1074, 1077, 1088, 1090, 1072, 1094, 1080, 1103>>,
                        <<1082, 1086, 1085, 1074, 1077, 1088, 1089, 1080, 1103>> }

\* rows the column search and the data-start search look at
TransfersScanRows == 10

\* isinstance(val, str) and a phrase of the set in val.lower()
TextCellWith(cell, phrases) ==
    cell.t = "str" /\ \E p \in phrases : Contains(p, LowerStr(cell.s))

\* the columns of row i that hold the operation-name header
OperationNameColumns(df, i) ==
    { c \in 0..(Width(df) - 1) : TextCellWith(df[i + 1][c + 1], {OPERATION_NAME_HEADER}) }

\* the first of the leading rows with the operation-name header, -1 when none has it
transfers_header_row(df) ==
    FirstOf({ i \in 0..(Len(df) - 1) :
                i < TransfersScanRows /\ OperationNameColumns(df, i) # {} }, -1)

\* the nearest column left of the operation-name column whose header mentions a date
DateColumnLeftOf(header, operation_type_col) ==
    IF \E c \in 0..(operation_type_col - 1) : TextCellWith(header[c + 1], DATE_HEADER)
    THEN CHOOSE c \in 0..(operation_type_col - 1) :
            /\ TextCellWith(header[c + 1], DATE_HEADER)
            /\ \A d \in (c + 1)..(operation_type_col - 1) : ~TextCellWith(header[d + 1], DATE_HEADER)
    ELSE -1

\* the first column in lo..hi-1, and inside the row, whose header has one of the phrases
HeaderColumnIn(header, lo, hi, phrases) ==
    FirstOf({ c \in lo..(hi - 1) : c < Len(header) /\ TextCellWith(header[c + 1], phrases) }, -1)

\* fallback = {"date": 1, "operation_type": 8, "asset_name": 9, "comment": 10,
\* "quantity": 11} for the required fields that can be missing
TRANSFERS_FALLBACK == [date |-> 1, quantity |-> 11]

\* _find_columns_by_structure for the header row and the operation-name column found:
\* date left of it, asset 1..4, comment 2..5 and quantity 3..7 columns right of it, the
\* operation type two columns right of it, and the fallback for a missing date or quantity
transfers_columns_around(header, operation_type_col) ==
    LET found ==
            [ date |-> DateColumnLeftOf(header, operation_type_col),
              asset_name |-> HeaderColumnIn(header, operation_type_col + 1,
                                            operation_type_col + 5, ASSET_HEADERS),
              comment |-> HeaderColumnIn(header, operation_type_col + 2,
                                         operation_type_col + 6, COMMENT_HEADERS),
              quantity |-> HeaderColumnIn(header, operation_type_col + 3,
                                          operation_type_col + 8, QUANTITY_HEADERS),
              operation_type |-> operation_type_col + 2 ]
    IN  [f \in { g \in DOMAIN found : found[g] # -1 \/ g \in DOMAIN TRANSFERS_FALLBACK } |->
            IF found[f] # -1 THEN found[f] ELSE TRANSFERS_FALLBACK[f]]

\* s[i] is one of . / -
DateSepAt(s, i) == i <= Len(s) /\ s[i] \in {46, 47, 45}

\* re.match(r'\d{1,2}[\.\/\-]\d{1,2}[\.\/\-]\d{2,4}', s)
LooksDayFirst(s) ==
    \E a \in 1..2 : \E b \in 1..2 :
        /\ DigitsAt(s, 1, a) /\ DateSepAt(s, a + 1)
        /\ DigitsAt(s, a + 2, a + 1 + b) /\ DateSepAt(s, a + b + 2)
        /\ DigitsAt(s, a + b + 3, a + b + 4)

\* re.match(r'\d{4}[\.\/\-]\d{1,2}[\.\/\-]\d{1,2}', s)
LooksYearFirst(s) ==
    \E b \in 1..2 :
        /\ DigitsAt(s, 1, 4) /\ DateSepAt(s, 5)
        /\ DigitsAt(s, 6, 5 + b) /\ DateSepAt(s, 6 + b)
        /\ DigitsAt(s, 7 + b, 7 + b)

\* XlsTransfersParser._looks_like_date
looks_like_date(value) ==
    \/ value.t = "date"
    \/ value.t = "str" /\ (LooksDayFirst(Strip(value.s)) \/ LooksYearFirst(Strip(value.s)))

\* re.match(r'^-?\d+[\.,]?\d*$', s): the text after the optional minus
PlainNumber(s) ==
    /\ s # <<>>
    /\ IsDigit(s[1])
    /\ \A i \in 1..Len(s) : IsDigit(s[i]) \/ s[i] \in {46, 44}
    /\ Cardinality({ i \in 1..Len(s) : s[i] \in {46, 44} }) <= 1

\* XlsTransfersParser._looks_like_number: an empty cell is the float NaN
looks_like_number(value) ==
    \/ value.t \in {"num", "empty"}
    \/ /\ value.t = "str"
       /\ PlainNumber(IF Strip(value.s) # <<>> /\ Strip(value.s)[1] = 45
                      THEN Tail(Strip(value.s)) ELSE Strip(value.s))

\* number of the leading rows whose cell in column c is in the set of cells hits
\* (a function from cells to BOOLEAN)
CountInColumn(df, c, hits) ==
    Cardinality({ i \in 0..(Len(df) - 1) : i < TransfersScanRows /\ hits[df[i + 1][c + 1]] })

\* the cells of a frame
CellsOf(df) == { df[i][c] : i \in 1..Len(df), c \in 1..Width(df) }

\* XlsTransfersParser._find_columns_by_heuristics: the first column with three dates,
\* the first with two transfer labels, the first other one with three numbers
transfers_columns_by_counts(df, date_col, operation_type_col) ==
    LET taken == {date_col, operation_type_col} \ {-1}
        quantity_col ==
            FirstOf({ c \in 0..(Width(df) - 1) :
                        /\ c \notin taken
                        /\ CountInColumn(df, c, [v \in CellsOf(df) |-> looks_like_number(v)]) >= 3 },
                    -1)
        found == [date |-> date_col, operation_type |-> operation_type_col,
                  quantity |-> quantity_col]
    IN  [f \in { g \in DOMAIN found : found[g] # -1 } |-> found[f]]

find_columns_by_heuristics(df) ==
    transfers_columns_by_counts(
        df,
        FirstOf({ c \in 0..(Width(df) - 1) :
                    CountInColumn(df, c, [v \in CellsOf(df) |-> looks_like_date(v)]) >= 3 }, -1),
        FirstOf({ c \in 0..(Width(df) - 1) :
                    CountInColumn(df, c, [v \in CellsOf(df) |->
                                            TextCellWith(v, {TRANSFER_MARKER})]) >= 2 }, -1))

\* _find_columns_by_structure once the header row is known
transfers_columns_at(df, header_row) ==
    IF header_row = -1 THEN find_columns_by_heuristics(df)
    ELSE transfers_columns_around(df[header_row + 1],
                                  FirstOf(OperationNameColumns(df, header_row), -1))

\* XlsTransfersParser._find_columns_by_structure
find_columns_by_structure(df) == transfers_columns_at(df, transfers_header_row(df))

\* "%d.%m.%Y %H:%M:%S", "%d.%m.%Y %H:%M", "%d.%m.%Y", "%Y-%m-%d %H:%M:%S",
\* "%Y-%m-%d %H:%M", "%Y-%m-%d", "%d.%m.%y %H:%M:%S", "%d.%m.%y %H:%M", "%d.%m.%y"
TRANSFERS_DATE_FORMATS ==
    << F_dmY \o F_HM \o F_S, F_dmY \o F_HM, F_dmY,
       F_Ymd \o F_HM \o F_S, F_Ymd \o F_HM, F_Ymd,
       F_dmy \o F_HM \o F_S, F_dmy \o F_HM, F_dmy >>

\* XlsTransfersParser._parse_datetime(date_val): a date cell is returned as it is, of
\* any other value the first word of its text, with , and / turned into points, is
\* tried against the formats; ok = FALSE stands for None
transfers_parse_datetime(date_val) ==
    IF date_val.t \in {"empty", "none"} THEN NoDatetime
    ELSE IF date_val.t = "date" THEN [ok |-> TRUE, d |-> date_val.d]
    ELSE IF Strip(PyStr(date_val)) = <<>> THEN NoDatetime
    ELSE FirstFormat(FirstWord(ReplaceChar(ReplaceChar(Strip(PyStr(date_val)), 44, 46), 47, 46)),
                     TRANSFERS_DATE_FORMATS)

\* XlsTransfersParser._extract_field
transfers_extract_field(row, column_mapping, field_name) ==
    IF field_name \notin DOMAIN column_mapping THEN <<>>
    ELSE IF column_mapping[field_name] >= Len(row) THEN <<>>
    ELSE IF IsNa(row[column_mapping[field_name] + 1]) THEN <<>>
    ELSE Strip(PyStr(row[column_mapping[field_name] + 1]))

\* the label alone decides, whatever the comment says
is_transfer_operation(operation_type, comment) ==
    Contains(TRANSFER_MARKER, LowerStr(Strip(operation_type)))

\* XlsTransfersParser._is_conversion_operation
is_conversion_operation(operation_type, comment) ==
    /\ Contains(TRANSFER_MARKER, LowerStr(Strip(operation_type)))
    /\ \E p \in CONVERSION_MARKERS : Contains(p, LowerStr(Strip(comment)))

\* a character \w matches: a letter, a digit or the underscore
IsWordChar(c) ==
    \/ IsDigit(c) \/ c \in 65..90 \/ c \in 97..122 \/ c = 95
    \/ c \in 1040..1103 \/ c \in {1025, 1105}

IsLatinLetter(c) == c \in 65..90 \/ c \in 97..122

\* ISIN_RE matches at s[i..]: two letters, nine letters or digits, a digit, between
\* word boundaries, letters in either case
IsinAt(s, i) ==
    /\ i + 11 <= Len(s)
    /\ IsLatinLetter(s[i]) /\ IsLatinLetter(s[i + 1])
    /\ \A j \in (i + 2)..(i + 10) : IsLatinLetter(s[j]) \/ IsDigit(s[j])
    /\ IsDigit(s[i + 11])
    /\ (i = 1 \/ ~IsWordChar(s[i - 1]))
    /\ (i + 11 = Len(s) \/ ~IsWordChar(s[i + 12]))

\* ISIN_RE.search(s): the leftmost position of a match, 0 when there is none
IsinSearch(s) == FirstOf({ i \in 1..Len(s) : IsinAt(s, i) }, 0)

\* extract_isin_from_attr(s)
extract_isin_from_attr(s) ==
    IF s = <<>> THEN <<>>
    ELSE IF IsinSearch(s) # 0 THEN UpperStr(SubSeq(s, IsinSearch(s), IsinSearch(s) + 11))
    ELSE Strip(s)

\* self.stats of a new XlsTransfersParser; debug_info is never written
TransfersStats0 ==
    [ total_rows |-> 0, parsed |-> 0, skipped_no_date |-> 0, skipped_no_qty |-> 0,
      skipped_not_conversion |-> 0, skipped_invalid |-> 0, detected_sheet |-> <<>>,
      column_mapping |-> <<>>, debug_info |-> <<>> ]

\* the cell of a row in the column of a field, NoneCell for a field without a column;
\* used where the column is inside the row
FieldCell(row, column_mapping, field_name) ==
    IF field_name \in DOMAIN column_mapping THEN row[column_mapping[field_name] + 1]
    ELSE NoneCell

\* a field has a column and that column is beyond the row: row.iloc raises IndexError
BeyondRow(row, column_mapping, field_name) ==
    field_name \in DOMAIN column_mapping /\ column_mapping[field_name] >= Len(row)

\* _process_row once the quantity is read
transfers_row_operation(text, trade_date, qty) ==
    IF FEq0(qty) THEN RowSkipped("skipped_no_qty")
    ELSE IF ~is_conversion_operation(text.operation_type, text.comment)
         THEN RowSkipped("skipped_not_conversion")
    ELSE RowParsed(
             OperationDTO(trade_date.d,
                          IF FGt0(qty) THEN K_asset_receive ELSE K_asset_withdrawal,
                          Zero, <<>>, <<>>, extract_isin_from_attr(text.asset_name), <<>>,
                          Zero, FAbs(qty), Zero, text.comment, <<>>, Zero),
             Zero)

\* _process_row once the date is read
transfers_row_dated(row, column_mapping, trade_date) ==
    IF ~trade_date.ok THEN RowSkipped("skipped_no_date")
    ELSE IF BeyondRow(row, column_mapping, "quantity") THEN RowSkipped("skipped_invalid")
    ELSE transfers_row_operation(
             [f \in {"operation_type", "comment", "asset_name"} |->
                 transfers_extract_field(row, column_mapping, f)],
             trade_date,
             to_float_safe(FieldCell(row, column_mapping, "quantity")))

\* XlsTransfersParser._process_row
transfers_process_row(row, column_mapping) ==
    IF BeyondRow(row, column_mapping, "date") THEN RowSkipped("skipped_invalid")
    ELSE transfers_row_dated(row, column_mapping,
                             transfers_parse_datetime(FieldCell(row, column_mapping, "date")))

\* operations and statistics after one more row; a row that is empty throughout is
\* passed over before it is counted
transfers_add_row(acc, row, outcome) ==
    IF \A c \in 1..Len(row) : IsNa(row[c]) THEN acc
    ELSE [ops |-> acc.ops \o outcome.ops,
          stats |-> [acc.stats EXCEPT !.total_rows = @ + 1, ![outcome.counter] = @ + 1]]

\* the loop of _process_rows from row i on
RECURSIVE transfers_rows_from(_, _, _, _)
transfers_rows_from(df, column_mapping, i, acc) ==
    IF i >= Len(df) THEN acc
    ELSE transfers_rows_from(df, column_mapping, i + 1,
                             transfers_add_row(acc, df[i + 1],
                                               transfers_process_row(df[i + 1], column_mapping)))

\* XlsTransfersParser._find_data_start_row: the first of the leading rows whose date
\* column looks like a date, else 0; a date column beyond the frame raises IndexError
find_data_start_row(df, column_mapping) ==
    IF "date" \notin DOMAIN column_mapping THEN Done(0)
    ELSE IF df # <<>> /\ column_mapping.date >= Width(df) THEN Raised(E_out_of_bounds)
    ELSE Done(FirstOf({ i \in 0..(Len(df) - 1) :
                          /\ i < TransfersScanRows
                          /\ looks_like_date(df[i + 1][column_mapping.date + 1]) }, 0))

\* XlsTransfersParser._process_rows once the first data row is known
transfers_process_from(df, column_mapping, stats, start_row) ==
    IF ~start_row.ok THEN Failure(stats, start_row.err)
    ELSE transfers_rows_from(df, column_mapping, start_row.v, [ops |-> <<>>, stats |-> stats])

\* parse() from _find_columns_by_structure on
transfers_parse_columns(df, stats, column_mapping) ==
    transfers_process_from(df, column_mapping,
                           [stats EXCEPT !.column_mapping = column_mapping],
                           find_data_start_row(df, column_mapping))

\* parse() on the frame read from the sheet with header=None
transfers_parse_frame(df, stats) ==
    transfers_parse_columns(df, stats, find_columns_by_structure(df))

\* parse() once the sheet is chosen
transfers_parse_sheet(book, sheet) ==
    IF ~sheet.ok THEN Failure(TransfersStats0, sheet.err)
    ELSE transfers_parse_frame(preprocess_dataframe(GridOf(book, sheet.v)),
                               [TransfersStats0 EXCEPT !.detected_sheet = sheet.v])

\* parse() once the engine is chosen
transfers_parse_with(book, engine) ==
    IF ~engine.ok THEN Failure(TransfersStats0, engine.err)
    ELSE IF ~book.readable THEN Failure(TransfersStats0, E_unreadable)
    ELSE transfers_parse_sheet(book, find_transfers_sheet(sheet_names(book)))

\* XlsTransfersParser.parse / parse_transfers_from_xls: [ops, stats]
transfers_parse(book) == transfers_parse_with(book, detect_engine(book.path, E_format))

----------------------------------------------------------------------------
(* XlsFinancialOperationsParser (src/parsers/xls_parsers/xls_fin_ops.py)   *)

\* the keys of CURRENCY_DICT, in its order, are the three-letter codes themselves and
\* "РУБЛЬ", "Рубль" for RUB
CURRENCY_DICT ==
    << [key |-> <<65, 69, 68>>, code |-> <<65, 69, 68>>],
       [key |-> <<65, 77, 68>>, code |-> <<65, 77, 68>>],
       [key |-> <<66, 89, 78>>, code |-> <<66, 89, 78>>],
       [key |-> <<67, 72, 70>>, code |-> <<67, 72, 70>>],
       [key |-> <<67, 78, 89>>, code |-> <<67, 78, 89>>],
       [key |-> <<69, 85, 82>>, code |-> <<69, 85, 82>>],
       [key |-> <<71, 66, 80>>, code |-> <<71, 66, 80>>],
       [key |-> <<72, 75, 68>>, code |-> <<72, 75, 68>>],
       [key |-> <<74, 80, 89>>, code |-> <<74, 80, 89>>],
       [key |-> <<75, 71, 83>>, code |-> <<75, 71, 83>>],
       [key |-> <<75, 90, 84>>, code |-> <<75, 90, 84>>],
       [key |-> <<78, 79, 75>>, code |-> <<78, 79, 75>>],
       [key |-> <<82, 85, 66>>, code |-> <<82, 85, 66>>],
       [key |-> <<1056, 1059, 1041, 1051, 1068>>, code |-> <<82, 85, 66>>],
       [key |-> <<1056, 1091, 1073, 1083, 1100>>, code |-> <<82, 85, 66>>],
       [key |-> <<83, 69, 75>>, code |-> <<83, 69, 75>>],
       [key |-> <<84, 74, 83>>, code |-> <<84, 74, 83>>],
       [key |-> <<84, 82, 89>>, code |-> <<84, 82, 89>>],
       [key |-> <<85, 83, 68>>, code |-> <<85, 83, 68>>],
       [key |-> <<85, 90, 83>>, code |-> <<85, 90, 83>>],
       [key |-> <<88, 65, 71>>, code |-> <<88, 65, 71>>],
       [key |-> <<88, 65, 85>>, code |-> <<88, 65, 85>>],
       [key |-> <<90, 65, 82>>, code |-> <<90, 65, 82>>] >>

\* "движение", "дс", "движение дс", "Движение ДС"
FIN_SHEET_KEYWORDS ==
    { <<1076, 1074, 1080, 1078, 1077, 1085, 1080, 1077>>,
    <<1076, 1089>>,
    <<1076, 1074, 1080, 1078, 1077, 1085, 1080, 1077, 32, 1076, 1089>>,
    <<1044, 1074, 1080, 1078, 1077, 1085, 1080, 1077, 32, 1044, 1057>> }

\* "Движение ДС", "Финансовые операции", "Движения денежных средств", "Движение денежных средств"
FIN_FALLBACK_NAMES ==
    << <<1044, 1074, 1080, 1078, 1077, 1085, 1080, 1077, 32, 1044, 1057>>,
    <<1060, 1080, 1085, 1072, 1085, 1089, 1086, 1074, 1099, 1077, 32, 1086, 1087, 1077, 1088, 1072, 1094, 1080, 1080>>,
    <<1044, 1074, 1080, 1078, 1077, 1085, 1080, 1103, 32, 1076, 1077, 1085, 1077, 1078, 1085, 1099, 1093, 32, 1089, 1088, 1077, 1076, 1089, 1090, 1074>>,
    <<1044, 1074, 1080, 1078, 1077, 1085, 1080, 1077, 32, 1076, 1077, 1085, 1077, 1078, 1085, 1099, 1093, 32, 1089, 1088, 1077, 1076, 1089, 1090, 1074>> >>

\* XlsFinancialOperationsParser._find_financial_sheet
find_financial_sheet(names) ==
    FindSheet(names, FIN_SHEET_KEYWORDS, FIN_FALLBACK_NAMES, 0, E_no_sheets_excel)

\* HEADER_KEYWORDS without "amount", which _detect_columns leaves to _find_amount_column
FIN_HEADER_KEYWORDS ==
    \* date: "дата"
    [ date |-> { <<1076, 1072, 1090, 1072>> },
    \* time: "время"
      time |-> { <<1074, 1088, 1077, 1084, 1103>> },
    \* operation_type: "наименование операции", "операция", "тип операции", "вид операции", "содержание"
      operation_type |-> { <<1085, 1072, 1080, 1084, 1077, 1085, 1086, 1074, 1072, 1085, 1080, 1077, 32, 1086, 1087, 1077, 1088, 1072, 1094, 1080, 1080>>,
        <<1086, 1087, 1077, 1088, 1072, 1094, 1080, 1103>>,
        <<1090, 1080, 1087, 32, 1086, 1087, 1077, 1088, 1072, 1094, 1080, 1080>>,
        <<1074, 1080, 1076, 32, 1086, 1087, 1077, 1088, 1072, 1094, 1080, 1080>>,
        <<1089, 1086, 1076, 1077, 1088, 1078, 1072, 1085, 1080, 1077>> },
    \* comment: "комментарий"
      comment |-> { <<1082, 1086, 1084, 1084, 1077, 1085, 1090, 1072, 1088, 1080, 1081>> } ]

\* "Дата создания заявки", written with its capital letter as in the source
FIN_DATE_MARKER == { <<1044, 1072, 1090, 1072, 32, 1089, 1086, 1079, 1076, 1072, 1085, 1080, 1103, 32, 1079, 1072, 1103, 1074, 1082, 1080>> }

\* "номер заявки", "номер договора", "содержание"
FIN_OPERATION_MARKERS == { <<1085, 1086, 1084, 1077, 1088, 32, 1079, 1072, 1103, 1074, 1082, 1080>>,
                           <<1085, 1086, 1084, 1077, 1088, 32, 1076, 1086, 1075, 1086, 1074, 1086, 1088, 1072>>,
                           <<1089, 1086, 1076, 1077, 1088, 1078, 1072, 1085, 1080, 1077>> }

\* XlsFinancialOperationsParser._find_header_row: the markers are looked for in the
\* lower-cased texts of the leading rows
fin_find_header_row(df) ==
    FirstOf({ i \in 0..(Len(df) - 1) :
                /\ i < HeaderScanRows
                /\ RowMentions(LowerRow(df[i + 1]), FIN_DATE_MARKER)
                /\ RowMentions(LowerRow(df[i + 1]), FIN_OPERATION_MARKERS) }, -1)

\* re.sub(r'[^\d\.\-,]', '', value) after the dashes are turned into "-"
NumericText(s) == KeepAmountChars(ReplaceChar(ReplaceChar(s, 8211, 45), 8722, 45))

\* XlsFinancialOperationsParser._is_numeric_value
is_numeric_value(value) ==
    \/ value.t = "num"
    \/ value.t = "str" /\ PyFloat(ReplaceChar(NumericText(value.s), 44, 46)).ok

\* XlsFinancialOperationsParser._column_has_numeric_data: two numeric cells among the
\* five rows under the header
column_has_numeric_data(df, header_row, col_idx) ==
    Cardinality({ i \in (header_row + 1)..(header_row + 5) :
                    i < Len(df) /\ is_numeric_value(df[i + 1][col_idx + 1]) }) >= 2

\* the candidates of a column: its sub-header unless blank or "NAN", then its header
\* unless blank, both stripped and upper-cased
AmountCandidates(headers, subheaders, col_idx) ==
    (IF subheaders # <<>> /\ Strip(subheaders[col_idx + 1]) # <<>>
        /\ subheaders[col_idx + 1] # UpperStr(NanWord)
     THEN <<UpperStr(Strip(subheaders[col_idx + 1]))>> ELSE <<>>)
    \o (IF Strip(headers[col_idx + 1]) # <<>>
        THEN <<UpperStr(Strip(headers[col_idx + 1]))>> ELSE <<>>)

\* the code of the first currency key equal to the candidate, else of the first one
\* inside it; <<>> when there is none
CurrencyOf(candidate) ==
    IF \E k \in 1..Len(CURRENCY_DICT) : UpperStr(CURRENCY_DICT[k].key) = candidate
    THEN CURRENCY_DICT[FirstOf({ k \in 1..Len(CURRENCY_DICT) :
                                   UpperStr(CURRENCY_DICT[k].key) = candidate }, 0)].code
    ELSE IF \E k \in 1..Len(CURRENCY_DICT) : Contains(UpperStr(CURRENCY_DICT[k].key), candidate)
    THEN CURRENCY_DICT[FirstOf({ k \in 1..Len(CURRENCY_DICT) :
                                   Contains(UpperStr(CURRENCY_DICT[k].key), candidate) }, 0)].code
    ELSE <<>>

\* the currency a column stands for: that of its first candidate naming one
ColumnCurrency(candidates) ==
    IF \E j \in 1..Len(candidates) : CurrencyOf(candidates[j]) # <<>>
    THEN CurrencyOf(candidates[FirstOf({ j \in 1..Len(candidates) :
                                           CurrencyOf(candidates[j]) # <<>> }, 0)])
    ELSE <<>>

\* the columns that name a currency and hold numeric data
AmountColumns(df, header_row, headers, subheaders) ==
    { c \in 0..(Len(headers) - 1) :
        /\ ColumnCurrency(AmountCandidates(headers, subheaders, c)) # <<>>
        /\ column_has_numeric_data(df, header_row, c) }

\* _find_amount_column once the columns are known: the first of them with its
\* currency, column 4 and RUB when there is none
amount_column_among(headers, subheaders, columns) ==
    IF columns = {} THEN [col |-> 4, currency |-> RUB]
    ELSE [col |-> FirstOf(columns, 0),
          currency |-> ColumnCurrency(AmountCandidates(headers, subheaders, FirstOf(columns, 0)))]

\* the texts of the row under the header, stripped and upper-cased
Subheaders(df, header_row) ==
    IF header_row + 1 < Len(df)
    THEN [c \in 1..Width(df) |-> UpperStr(Strip(PyStr(df[header_row + 2][c])))]
    ELSE <<>>

\* XlsFinancialOperationsParser._find_amount_column
find_amount_column(df, header_row, headers) ==
    amount_column_among(headers, Subheaders(df, header_row),
                        AmountColumns(df, header_row, headers, Subheaders(df, header_row)))

\* the header texts mapped to fields: the first column with a keyword of the field
fin_column_of(headers, field) ==
    FirstOf({ c \in 0..(Len(headers) - 1) :
                \E k \in FIN_HEADER_KEYWORDS[field] : Contains(k, headers[c + 1]) }, -1)

\* fallback positions of the required fields that have no column
FIN_FALLBACK_POSITIONS == [date |-> 0, operation_type |-> 2, comment |-> 3]

\* the column_mapping of _detect_columns: the fields found by keyword, the amount
\* column, and a required field without a column at its fallback position when the
\* header row is wide enough
fin_map_columns(headers, amount_col) ==
    [field \in { f \in DOMAIN FIN_HEADER_KEYWORDS :
                    \/ fin_column_of(headers, f) # -1
                    \/ f \in DOMAIN FIN_FALLBACK_POSITIONS
                       /\ Len(headers) > FIN_FALLBACK_POSITIONS[f] } \cup {"amount"} |->
        IF field = "amount" THEN amount_col
        ELSE IF fin_column_of(headers, field) # -1 THEN fin_column_of(headers, field)
        ELSE FIN_FALLBACK_POSITIONS[field]]

\* "%Y-%m-%d" tried on the text, or on what precedes its first "T"
DateBeforeT(date_str) ==
    strptime(IF FirstIn(date_str, {84}) # 0
             THEN SubSeq(date_str, 1, FirstIn(date_str, {84}) - 1) ELSE date_str, F_Ymd)

\* parse_datetime_from_components(date_str) without time_str; ok = FALSE stands for None
parse_datetime_from_components(date_str) ==
    IF date_str = <<>> THEN NoDatetime
    ELSE IF FirstIn(date_str, {84}) # 0 /\ fromisoformat(date_str).ok THEN fromisoformat(date_str)
    ELSE DateBeforeT(date_str)

\* XlsFinancialOperationsParser._extract_field
fin_extract_field(row, column_mapping, field_name) ==
    IF field_name \notin DOMAIN column_mapping THEN <<>>
    ELSE IF column_mapping[field_name] >= Len(row) THEN <<>>
    ELSE IF IsNa(row[column_mapping[field_name] + 1]) THEN <<>>
    ELSE Strip(PyStr(row[column_mapping[field_name] + 1]))

\* an empty date cell gives no date, whatever the rows before had
date_without_inheritance(date_val, last_valid_date) ==
    IF IsNa(date_val) \/ Strip(PyStr(date_val)) = <<>> THEN NoDatetime
    ELSE IF date_val.t = "date" THEN [ok |-> TRUE, d |-> date_val.d]
    ELSE parse_datetime_from_components(PyStr(date_val))

\* _extract_date_with_inheritance on the cell of the date column
date_with_inheritance(date_val, last_valid_date) ==
    IF IsNa(date_val) \/ Strip(PyStr(date_val)) = <<>> THEN last_valid_date
    ELSE IF date_val.t = "date" THEN [ok |-> TRUE, d |-> date_val.d]
    ELSE parse_datetime_from_components(PyStr(date_val))

\* XlsFinancialOperationsParser._extract_date_with_inheritance; last_valid_date and
\* the result are [ok, d], ok = FALSE standing for None
extract_date_with_inheritance(row, column_mapping, last_valid_date) ==
    IF "date" \notin DOMAIN column_mapping THEN last_valid_date
    ELSE date_with_inheritance(row[column_mapping.date + 1], last_valid_date)

\* XlsFinancialOperationsParser._extract_amount
extract_amount(row, column_mapping) ==
    IF column_mapping.amount >= Len(row) THEN NoFloat
    ELSE AmountOfCell(row[column_mapping.amount + 1])

\* "итого", "итог:", "итого:", "баланс"
TOTAL_INDICATORS == { <<1080, 1090, 1086, 1075, 1086>>, <<1080, 1090, 1086, 1075, 58>>,
                      <<1080, 1090, 1086, 1075, 1086, 58>>, <<1073, 1072, 1083, 1072, 1085, 1089>> }

\* XlsFinancialOperationsParser._is_total_row
is_total_row(oper_type, comment) ==
    \E indicator \in TOTAL_INDICATORS :
        Contains(indicator, LowerStr(comment)) \/ Contains(indicator, LowerStr(oper_type))

\* XlsFinancialOperationsParser._should_skip
fin_should_skip(oper_type, comment, amount, label_source) ==
    \/ label_source = <<>> /\ FEq0(amount)
    \/ is_total_row(oper_type, comment)
    \/ should_skip_operation(oper_type, comment, label_source)

\* extract_isin(comment_text): the match as written
extract_isin(comment_text) ==
    IF IsinSearch(comment_text) # 0
    THEN SubSeq(comment_text, IsinSearch(comment_text), IsinSearch(comment_text) + 11)
    ELSE <<>>

\* [0-9A-ZА-Я] under IGNORECASE
IsRegChar(c) == IsDigit(c) \/ IsLatinLetter(c) \/ c \in 1040..1103

\* [0-9A-ZА-Я\-\/] under IGNORECASE
IsRegTailChar(c) == IsRegChar(c) \/ c \in {45, 47}

\* \b between positions i and i + 1 of s
WordBoundaryAfter(s, i) ==
    (i >= 1 /\ IsWordChar(s[i])) # (i < Len(s) /\ IsWordChar(s[i + 1]))

\* the position of the [-/] of the "full" pattern for a match starting at i, 0 if none
RegSeparatorAt(s, i) ==
    FirstOf({ p \in (i + 1)..(IF Len(s) < i + 8 THEN Len(s) ELSE i + 8) :
                /\ s[p] \in {45, 47}
                /\ \A j \in (i + 1)..(p - 1) : IsRegChar(s[j]) }, 0)

\* the ends of the matches of the "full" pattern that start at i with separator at p
RegFullEnds(s, i, p) ==
    { e \in (p + 1)..Len(s) :
        /\ \A j \in (p + 1)..e : IsRegTailChar(s[j])
        /\ \E j \in (p + 1)..e : IsDigit(s[j])
        /\ WordBoundaryAfter(s, e) }

\* the end of the "full" match starting at i, 0 if there is none: the repetitions
\* are greedy, so the longest one
RegFullAt(s, i) ==
    IF IsDigit(s[i]) /\ WordBoundaryAfter(s, i - 1) /\ RegSeparatorAt(s, i) # 0
    THEN LastOf(RegFullEnds(s, i, RegSeparatorAt(s, i)), 0)
    ELSE 0

\* the end of the "short" match starting at i, 0 if there is none
RegShortAt(s, i) ==
    IF /\ i + 8 <= Len(s)
       /\ WordBoundaryAfter(s, i - 1)
       /\ \A j \in i..(i + 7) : IsDigit(s[j])
       /\ (IsLatinLetter(s[i + 8]) \/ s[i + 8] \in 1040..1103)
       /\ WordBoundaryAfter(s, i + 8)
    THEN i + 8 ELSE 0

\* the end of the "rare" match starting at i, 0 if there is none
RegRareAt(s, i) ==
    IF i + 1 <= Len(s) /\ WordBoundaryAfter(s, i - 1)
       /\ IsLatinLetter(s[i]) /\ IsLatinLetter(s[i + 1])
    THEN LastOf({ e \in (i + 8)..(IF Len(s) < i + 11 THEN Len(s) ELSE i + 11) :
                    /\ \A j \in (i + 2)..e : IsDigit(s[j]) \/ IsLatinLetter(s[j])
                    /\ WordBoundaryAfter(s, e) }, 0)
    ELSE 0

\* REG_NUMBER_PATTERNS: for each pattern, the end of its match at each start
REG_NUMBER_PATTERNS(s) ==
    << [i \in 1..Len(s) |-> RegFullAt(s, i)],
       [i \in 1..Len(s) |-> RegShortAt(s, i)],
       [i \in 1..Len(s) |-> RegRareAt(s, i)] >>

\* pattern.search(comment_text).group(0), <<>> when there is no match
RegSearch(s, ends) ==
    IF \E i \in 1..Len(s) : ends[i] # 0
    THEN SubSeq(s, FirstOf({ i \in 1..Len(s) : ends[i] # 0 }, 0),
                ends[FirstOf({ i \in 1..Len(s) : ends[i] # 0 }, 0)])
    ELSE <<>>

\* the first pattern of the list with a match, from pattern n on
RECURSIVE RegFirstMatch(_, _, _)
RegFirstMatch(s, patterns, n) ==
    IF n > Len(patterns) THEN <<>>
    ELSE IF RegSearch(s, patterns[n]) # <<>> THEN RegSearch(s, patterns[n])
    ELSE RegFirstMatch(s, patterns, n + 1)

\* extract_reg_number(comment_text)
extract_reg_number(comment_text) ==
    RegFirstMatch(comment_text, REG_NUMBER_PATTERNS(comment_text), 1)

\* XlsFinancialOperationsParser._create_operation_dto
create_operation_dto(date, op_type, currency, payment_sum, comment, isin, reg_number) ==
    OperationDTO(date, op_type, FAbs(payment_sum), IF currency = <<>> THEN RUB ELSE currency, <<>>, isin, reg_number, Zero, Zero, Zero, comment, <<>>, Zero)

\* self.stats of a new XlsFinancialOperationsParser; the Decimal sums are kept as
\* decimal numbers until _finalize_stats
FinStats0 ==
    [ total_rows |-> 0, parsed |-> 0, skipped |-> 0, example_comments |-> <<>>,
      amounts_by_mapped_type |-> <<>>, amounts_by_label |-> <<>>,
      total_income |-> Zero, total_expense |-> Zero, detected_sheet |-> <<>>,
      column_mapping |-> <<>>, currency_for_amount |-> RUB ]

\* d[key] = d.get(key, Decimal("0")) + amount
DictAdd(d, key, amount) ==
    [k \in DOMAIN d \cup {key} |->
        IF k # key THEN d[k]
        ELSE IF key \in DOMAIN d THEN FAdd(d[key], amount) ELSE FAdd(Zero, amount)]

\* comment.splitlines()[0]
FirstLine(comment) ==
    IF FirstIn(comment, LineBreaks) = 0 THEN comment
    ELSE SubSeq(comment, 1, FirstIn(comment, LineBreaks) - 1)

\* the label_key of _update_stats
LabelKey(oper_type, comment) ==
    IF Strip(oper_type) # <<>> THEN Strip(oper_type)
    ELSE IF comment # <<>> THEN Strip(FirstLine(comment)) ELSE <<>>

\* XlsFinancialOperationsParser._update_stats with the label key computed
update_stats_at(stats, label_key, amount, mapped_type) ==
    [stats EXCEPT
        !.amounts_by_mapped_type = DictAdd(@, mapped_type, amount),
        !.amounts_by_label = IF label_key # <<>> THEN DictAdd(@, label_key, amount) ELSE @,
        !.total_income = IF FGt0(amount) THEN FAdd(@, amount) ELSE @,
        !.total_expense = IF amount.m < 0 THEN FAdd(@, amount) ELSE @]

\* _update_stats, _collect_example_comment and the parsed counter of a parsed row
fin_count_parsed(stats, oper_type, comment, amount, mapped_type) ==
    [update_stats_at(stats, LabelKey(oper_type, comment), amount, mapped_type) EXCEPT
        !.example_comments = IF comment # <<>> /\ Len(@) < 5 THEN Append(@, comment) ELSE @,
        !.parsed = @ + 1]

\* a skipped row that never changes last_valid_date
FinSkippedKeepingDate(acc, current_date) ==
    [ops |-> acc.ops, stats |-> [acc.stats EXCEPT !.skipped = @ + 1], last |-> acc.last]

\* the state of the loop of _process_rows: operations, statistics, last_valid_date
FinSkipped(acc, current_date) ==
    [ops |-> acc.ops, stats |-> [acc.stats EXCEPT !.skipped = @ + 1],
     last |-> IF current_date.ok THEN current_date ELSE acc.last]

\* a row that passed _should_skip, with its mapped type
fin_row_typed(acc, current_date, oper_type, comment, amount, op_type) ==
    IF op_type = K_skip THEN FinSkipped(acc, current_date)
    ELSE [ops |-> Append(acc.ops,
                         create_operation_dto(current_date.d, op_type,
                                              acc.stats.currency_for_amount, amount, comment,
                                              extract_isin(comment), extract_reg_number(comment))),
          stats |-> fin_count_parsed(acc.stats, oper_type, comment, amount, op_type),
          last |-> current_date]

\* a dated row with its fields extracted
fin_row_fields(acc, current_date, oper_type, comment, amount) ==
    IF fin_should_skip(oper_type, comment, amount,
                       IF Strip(oper_type) # <<>> THEN Strip(oper_type) ELSE Strip(comment))
    THEN FinSkipped(acc, current_date)
    ELSE fin_row_typed(acc, current_date, oper_type, comment, amount,
                       determine_operation_type(oper_type, comment, amount))

\* _process_row_with_date_inheritance once the date is resolved
fin_row_dated(acc, row, column_mapping, current_date) ==
    IF ~current_date.ok THEN FinSkipped(acc, NoDatetime)
    ELSE fin_row_fields(acc, current_date,
                        fin_extract_field(row, column_mapping, "operation_type"),
                        fin_extract_field(row, column_mapping, "comment"),
                        ResolvedAmount(extract_amount(row, column_mapping)))

\* one iteration of the loop of _process_rows
process_row_with_date_inheritance(acc, row, column_mapping) ==
    fin_row_dated([acc EXCEPT !.stats.total_rows = @ + 1], row, column_mapping,
                  extract_date_with_inheritance(row, column_mapping, acc.last))

\* the loop of _process_rows from row i on
RECURSIVE fin_rows_from(_, _, _, _)
fin_rows_from(df, column_mapping, i, acc) ==
    IF i >= Len(df) THEN acc
    ELSE fin_rows_from(df, column_mapping, i + 1,
                       process_row_with_date_inheritance(acc, df[i + 1], column_mapping))

\* XlsFinancialOperationsParser._process_rows
fin_process_rows(df, column_mapping, stats, header_row) ==
    fin_rows_from(df, column_mapping, IF header_row # -1 THEN header_row + 1 ELSE 0,
                  [ops |-> <<>>, stats |-> stats, last |-> NoDatetime])

\* d.quantize(Decimal("0.0001")) in units of 0.0001, rounding half to even
Quantized(a, e) ==
    IF e <= 4 THEN a * Pow10(4 - e)
    ELSE IF 2 * (a % Pow10(e - 4)) > Pow10(e - 4) THEN (a \div Pow10(e - 4)) + 1
    ELSE IF 2 * (a % Pow10(e - 4)) < Pow10(e - 4) THEN a \div Pow10(e - 4)
    ELSE (a \div Pow10(e - 4)) + ((a \div Pow10(e - 4)) % 2)

\* format(units * 0.0001, "f")
FixedPoint4(negative, units) ==
    (IF negative THEN <<45>> ELSE <<>>) \o DigitsOf(units \div 10000) \o <<46>>
    \o Zeros(4 - Len(DigitsOf(units % 10000))) \o DigitsOf(units % 10000)

\* XlsFinancialOperationsParser._format_decimal on a finite sum
format_decimal(d) == FixedPoint4(d.m < 0, Quantized(IF d.m < 0 THEN -d.m ELSE d.m, d.e))

\* XlsFinancialOperationsParser._finalize_stats
finalize_stats(stats) ==
    [stats EXCEPT
        !.amounts_by_mapped_type = [k \in DOMAIN @ |-> format_decimal(@[k])],
        !.amounts_by_label = [k \in DOMAIN @ |-> format_decimal(@[k])],
        !.total_income = format_decimal(@),
        !.total_expense = format_decimal(@)]

\* what parse() returns when nothing raised
fin_finished(acc) == [ops |-> acc.ops, stats |-> finalize_stats(acc.stats)]

\* parse() after _detect_columns found the header row
fin_parse_columns(df, stats, header_row, headers) ==
    fin_finished(fin_process_rows(
        df,
        fin_map_columns(headers, find_amount_column(df, header_row, headers).col),
        [stats EXCEPT
            !.currency_for_amount = find_amount_column(df, header_row, headers).currency,
            !.column_mapping =
                fin_map_columns(headers, find_amount_column(df, header_row, headers).col)],
        header_row))

\* parse() on the frame read from the sheet
fin_parse_frame(df, stats, header_row) ==
    IF header_row = -1 THEN Failure(stats, E_no_header)
    ELSE fin_parse_columns(df, stats, header_row, LowerRow(df[header_row + 1]))

\* parse() once the sheet is chosen
fin_parse_sheet(book, sheet) ==
    IF ~sheet.ok THEN Failure(FinStats0, sheet.err)
    ELSE fin_parse_frame(preprocess_dataframe(read_excel(GridOf(book, sheet.v))),
                         [FinStats0 EXCEPT !.detected_sheet = sheet.v],
                         fin_find_header_row(
                             preprocess_dataframe(read_excel(GridOf(book, sheet.v)))))

\* parse() once the engine is chosen
fin_parse_with(book, engine) ==
    IF ~engine.ok THEN Failure(FinStats0, engine.err)
    ELSE IF ~book.readable THEN Failure(FinStats0, E_unreadable)
    ELSE fin_parse_sheet(book, find_financial_sheet(sheet_names(book)))

\* XlsFinancialOperationsParser.parse: [ops, stats]
fin_parse(book) == fin_parse_with(book, detect_engine(book.path, E_format_file))

----------------------------------------------------------------------------
(* parse_full_statement_xls (src/services/full_statement_xls.py)           *)

\* "движение дс" and "сделки": the sheets _extract_account_ids reads
ACCOUNT_SHEET_KEYWORDS == { <<1076, 1074, 1080, 1078, 1077, 1085, 1080, 1077, 32, 1076, 1089>>, <<1089, 1076, 1077, 1083, 1082, 1080>> }

\* "номер договора"
CONTRACT_HEADER == <<1085, 1086, 1084, 1077, 1088, 32, 1076, 1086, 1075, 1086, 1074, 1086, 1088, 1072>>

\* "Unnamed: "
UNNAMED == <<85, 110, 110, 97, 109, 101, 100, 58, 32>>

\* str(col).strip().lower() of the column labels read_excel makes of the first row of
\* a sheet; the label of an empty header cell is "Unnamed: <position>"
ColumnLabels(grid) ==
    [c \in 1..Len(grid[1]) |->
        IF IsNa(grid[1][c]) THEN LowerStr(UNNAMED \o DigitsOf(c - 1))
        ELSE LowerStr(Strip(PyStr(grid[1][c])))]

\* col_idx of _extract_account_ids: headers.index("номер договора"), else the first
\* header containing it, else -1 for None
ContractColumn(headers) ==
    IF \E c \in 1..Len(headers) : headers[c] = CONTRACT_HEADER
    THEN FirstOf({ c \in 1..Len(headers) : headers[c] = CONTRACT_HEADER }, 0) - 1
    ELSE FirstOf({ c \in 1..Len(headers) : Contains(CONTRACT_HEADER, headers[c]) }, 0) - 1

\* the values _extract_account_ids collects from column col_idx of a sheet
ContractValues(grid, col_idx) ==
    IF col_idx = -1 THEN {}
    ELSE { Strip(PyStr(grid[r][col_idx + 1])) :
             r \in { q \in 2..Len(grid) : /\ ~IsNa(grid[q][col_idx + 1])
                                          /\ Strip(PyStr(grid[q][col_idx + 1])) # <<>> } }

\* the values one sheet contributes: none when the frame is empty
SheetAccountIds(grid) ==
    IF Len(grid) < 2 THEN {} ELSE ContractValues(grid, ContractColumn(ColumnLabels(grid)))

\* sorted(texts)
RECURSIVE SortedTexts(_)
SortedTexts(texts) ==
    IF texts = {} THEN <<>>
    ELSE <<CHOOSE t \in texts : \A u \in texts \ {t} : StrLess(t, u)>>
         \o SortedTexts(texts \ {CHOOSE t \in texts : \A u \in texts \ {t} : StrLess(t, u)})

\* _extract_account_ids(file_path): the engine is chosen by the .xlsx suffix alone, and
\* a file it cannot open leaves the set empty
extract_account_ids(book) ==
    IF ~book.readable THEN <<>>
    ELSE SortedTexts(UNION { SheetAccountIds(book.sheets[i].grid) :
                               i \in { j \in 1..Len(book.sheets) :
                                         \E k \in ACCOUNT_SHEET_KEYWORDS :
                                             Contains(k, LowerStr(book.sheets[j].name)) } })

\* the datetimes extract_min_max_dates keeps: op.date is a datetime or None
ValidDates(ops) == { ops[i].date : i \in { j \in 1..Len(ops) : ops[j].date # NoDate } }

\* d.strftime("%d.%m.%Y")
strftime_dmY(d) == Pad(d.D, 2) \o <<46>> \o Pad(d.M, 2) \o <<46>> \o Pad(d.Y, 4)

\* the range with the dates compared as their formatted texts are: day, month, year
DatesRangeByText(valid_dates) ==
    [ date_start |-> strftime_dmY(CHOOSE d \in valid_dates :
                                      \A o \in valid_dates :
                                          ~DtLess(Datetime(o.D, o.M, o.Y, o.h, o.m, o.s),
                                                  Datetime(d.D, d.M, d.Y, d.h, d.m, d.s))),
      date_end |-> strftime_dmY(CHOOSE d \in valid_dates :
                                    \A o \in valid_dates :
                                        ~DtLess(Datetime(d.D, d.M, d.Y, d.h, d.m, d.s),
                                                Datetime(o.D, o.M, o.Y, o.h, o.m, o.s))) ]

\* min(valid_dates) and max(valid_dates) formatted
DatesRange(valid_dates) ==
    [ date_start |-> strftime_dmY(CHOOSE d \in valid_dates :
                                      \A o \in valid_dates : ~DtLess(o, d)),
      date_end |-> strftime_dmY(CHOOSE d \in valid_dates :
                                    \A o \in valid_dates : ~DtLess(d, o)) ]

\* extract_min_max_dates(ops)
extract_min_max_dates(ops) ==
    IF ValidDates(ops) = {} THEN [date_start |-> <<>>, date_end |-> <<>>]
    ELSE DatesRange(ValidDates(ops))

\* trades, trade_stats after the check for "error" in trade_stats
trades_or_nothing(parsed) ==
    IF "error" \in DOMAIN parsed.stats
    THEN [ops |-> <<>>, stats |-> [parsed |-> 0, total_rows |-> 0, total_commission |-> Zero]]
    ELSE parsed

\* transfers, transfer_stats after the check for "error" in transfer_stats
transfers_or_nothing(parsed) ==
    IF "error" \in DOMAIN parsed.stats
    THEN [ops |-> <<>>, stats |-> [parsed |-> 0, total_rows |-> 0]]
    ELSE parsed

\* stats.get(key, default)
Get(stats, key, default) == IF key \in DOMAIN stats THEN stats[key] ELSE default

\* the concatenation without the third list
combined_ops_without_transfers(fin_operations, trades, transfers) ==
    dedupe_ops(fin_operations) \o dedupe_ops(trades)

\* the concatenation deduplicated as one list
combined_ops_deduped_together(fin_operations, trades, transfers) ==
    dedupe_ops(fin_operations \o trades \o transfers)

\* combined_ops_dto
combined_ops(fin_operations, trades, transfers) ==
    dedupe_ops(fin_operations) \o dedupe_ops(trades) \o dedupe_ops(transfers)

\* the meta entry of the result
statement_meta(total_ops_count, fin_stats, trade_stats, transfer_stats) ==
    [ fin_ops_raw_count |-> Get(fin_stats, "total_rows", 0),
      trade_ops_raw_count |-> Get(trade_stats, "total_rows", 0),
      transfer_ops_raw_count |-> Get(transfer_stats, "total_rows", 0),
      total_ops_count |-> total_ops_count,
      fin_ops_stats |-> fin_stats,
      trade_ops_stats |-> trade_stats,
      transfer_ops_stats |-> transfer_stats,
      detected_sheets |->
          [ fin_sheet |-> Get(fin_stats, "detected_sheet", <<>>),
            trades_sheet |-> Get(trade_stats, "detected_sheet", <<>>),
            transfers_sheet |-> Get(transfer_stats, "detected_sheet", <<>>) ] ]

\* the dictionary parse_full_statement_xls returns
statement(account_ids, combined_ops_dto, dates, meta) ==
    [ account_id |-> account_ids,
      date_start |-> dates.date_start,
      date_end |-> dates.date_end,
      operations |-> SortOperations([i \in 1..Len(combined_ops_dto) |->
                                        to_dict(combined_ops_dto[i])]),
      meta |-> meta ]

\* parse_full_statement_xls from the merge on
statement_of(account_ids, fin_parsed, trades_kept, transfers_kept) ==
    statement(account_ids,
              combined_ops(fin_parsed.ops, trades_kept.ops, transfers_kept.ops),
              extract_min_max_dates(
                  combined_ops(fin_parsed.ops, trades_kept.ops, transfers_kept.ops)),
              statement_meta(
                  Len(combined_ops(fin_parsed.ops, trades_kept.ops, transfers_kept.ops)),
                  fin_parsed.stats, trades_kept.stats, transfers_kept.stats))

\* parse_full_statement_xls(file_path) given what the three parsers returned
parse_full_statement_xls(book, fin_parsed, trades_parsed, transfers_parsed) ==
    statement_of(extract_account_ids(book), fin_parsed,
                 trades_or_nothing(trades_parsed), transfers_or_nothing(transfers_parsed))

----------------------------------------------------------------------------
(* The workbooks parse_full_statement_xls is called on                     *)

\* a workbook: the path of the file, whether the engine its suffix selects can open it,
\* and its sheets in order
Workbook(path, readable, sheets) == [path |-> path, readable |-> readable, sheets |-> sheets]

Sheet(name, grid) == [name |-> name, grid |-> grid]

\* "Движение ДС"
FIN_SHEET == <<1044, 1074, 1080, 1078, 1077, 1085, 1080, 1077, 32, 1044, 1057>>

\* "Сделки"
TRADES_SHEET == <<1057, 1076, 1077, 1083, 1082, 1080>>

\* "Неторговые операции"
TRANSFERS_SHEET == <<1053, 1077, 1090, 1086, 1088, 1075, 1086, 1074, 1099, 1077, 32, 1086, 1087, 1077, 1088, 1072, 1094, 1080, 1080>>

\* "Лист1"
PLAIN_SHEET == <<1051, 1080, 1089, 1090, 49>>

\* the header row of the cash-movement sheet:
\*   Номер договора, Дата создания заявки, Номер заявки, Содержание операции, Сумма
FinHeader ==
    << StrCell(<<1053, 1086, 1084, 1077, 1088, 32, 1076, 1086, 1075, 1086, 1074, 1086, 1088, 1072>>),
       StrCell(<<1044, 1072, 1090, 1072, 32, 1089, 1086, 1079, 1076, 1072, 1085, 1080, 1103, 32, 1079, 1072, 1103, 1074, 1082, 1080>>),
       StrCell(<<1053, 1086, 1084, 1077, 1088, 32, 1079, 1072, 1103, 1074, 1082, 1080>>),
       StrCell(<<1057, 1086, 1076, 1077, 1088, 1078, 1072, 1085, 1080, 1077, 32, 1086, 1087, 1077, 1088, 1072, 1094, 1080, 1080>>),
       StrCell(<<1057, 1091, 1084, 1084, 1072>>) >>

\* cash-movement rows:
\*   40B, 2023-03-15 00:00:00, 1, Зачисление д/с, (10005, 1)
FinRowIncome ==
    << StrCell(<<52, 48, 66>>),
       DateCell(Datetime(2023, 3, 15, 0, 0, 0)),
       StrCell(<<49>>),
       StrCell(<<1047, 1072, 1095, 1080, 1089, 1083, 1077, 1085, 1080, 1077, 32, 1076, 47, 1089>>),
       NumCell(Num(10005, 1)) >>

\* and:
\*    40A , 2023-03-16, 2, Списание д/с, -1 234,50
FinRowExpense ==
    << StrCell(<<32, 52, 48, 65, 32>>),
       StrCell(<<50, 48, 50, 51, 45, 48, 51, 45, 49, 54>>),
       StrCell(<<50>>),
       StrCell(<<1057, 1087, 1080, 1089, 1072, 1085, 1080, 1077, 32, 1076, 47, 1089>>),
       StrCell(<<45, 49, 32, 50, 51, 52, 44, 53, 48>>) >>

FinGrid == << FinHeader, FinRowIncome, FinRowExpense >>

\* the title row of the trades sheet:
\*   Сделки купли/продажи ценных бумаг, (empty), (empty), (empty), (empty), (empty), (empty), (empty), (empty)
TradesTitle ==
    << StrCell(<<1057, 1076, 1077, 1083, 1082, 1080, 32, 1082, 1091, 1087, 1083, 1080, 47, 1087, 1088, 1086, 1076, 1072, 1078, 1080, 32, 1094, 1077, 1085, 1085, 1099, 1093, 32, 1073, 1091, 1084, 1072, 1075>>),
       EmptyCell,
       EmptyCell,
       EmptyCell,
       EmptyCell,
       EmptyCell,
       EmptyCell,
       EmptyCell,
       EmptyCell >>

\* the header row of the trades sheet:
\*   № сделки, Дата заключения, Код ISIN, Актив, Количество, Цена, Сумма сделки, Валюта, Комиссия
TradesHeader ==
    << StrCell(<<8470, 32, 1089, 1076, 1077, 1083, 1082, 1080>>),
       StrCell(<<1044, 1072, 1090, 1072, 32, 1079, 1072, 1082, 1083, 1102, 1095, 1077, 1085, 1080, 1103>>),
       StrCell(<<1050, 1086, 1076, 32, 73, 83, 73, 78>>),
       StrCell(<<1040, 1082, 1090, 1080, 1074>>),
       StrCell(<<1050, 1086, 1083, 1080, 1095, 1077, 1089, 1090, 1074, 1086>>),
       StrCell(<<1062, 1077, 1085, 1072>>),
       StrCell(<<1057, 1091, 1084, 1084, 1072, 32, 1089, 1076, 1077, 1083, 1082, 1080>>),
       StrCell(<<1042, 1072, 1083, 1102, 1090, 1072>>),
       StrCell(<<1050, 1086, 1084, 1080, 1089, 1089, 1080, 1103>>) >>

\* a purchase:
\*   T1, 15.03.2023 10:00:00, RU0009029540, Сбербанк, 10, (2505, 1), 2505, RUB, (15, 1)
TradeRowBuy ==
    << StrCell(<<84, 49>>),
       StrCell(<<49, 53, 46, 48, 51, 46, 50, 48, 50, 51, 32, 49, 48, 58, 48, 48, 58, 48, 48>>),
       StrCell(<<82, 85, 48, 48, 48, 57, 48, 50, 57, 53, 52, 48>>),
       StrCell(<<1057, 1073, 1077, 1088, 1073, 1072, 1085, 1082>>),
       NumCell(Num(10, 0)),
       NumCell(Num(2505, 1)),
       NumCell(Num(2505, 0)),
       StrCell(<<82, 85, 66>>),
       NumCell(Num(15, 1)) >>

\* a sale, its quantity written as text:
\*   T2, 14.03.2023, RU0007661625, Газпром, -5, 250, 1250, USD, 0
TradeRowSale ==
    << StrCell(<<84, 50>>),
       StrCell(<<49, 52, 46, 48, 51, 46, 50, 48, 50, 51>>),
       StrCell(<<82, 85, 48, 48, 48, 55, 54, 54, 49, 54, 50, 53>>),
       StrCell(<<1043, 1072, 1079, 1087, 1088, 1086, 1084>>),
       StrCell(<<45, 53>>),
       NumCell(Num(250, 0)),
       NumCell(Num(1250, 0)),
       StrCell(<<85, 83, 68>>),
       NumCell(Num(0, 0)) >>

\* a row whose date does not parse:
\*   T3, bad, RU0007661625, Газпром, 3, 250, 750, RUB, 0
TradeRowUndated ==
    << StrCell(<<84, 51>>),
       StrCell(<<98, 97, 100>>),
       StrCell(<<82, 85, 48, 48, 48, 55, 54, 54, 49, 54, 50, 53>>),
       StrCell(<<1043, 1072, 1079, 1087, 1088, 1086, 1084>>),
       NumCell(Num(3, 0)),
       NumCell(Num(250, 0)),
       NumCell(Num(750, 0)),
       StrCell(<<82, 85, 66>>),
       NumCell(Num(0, 0)) >>

\* a row whose quantity is the text "NAN", which read_excel keeps as text:
\*   T4, 16.03.2023, RU0007661625, Газпром, NAN, 250, 750, RUB, 0
TradeRowNanQuantity ==
    << StrCell(<<84, 52>>),
       StrCell(<<49, 54, 46, 48, 51, 46, 50, 48, 50, 51>>),
       StrCell(<<82, 85, 48, 48, 48, 55, 54, 54, 49, 54, 50, 53>>),
       StrCell(<<1043, 1072, 1079, 1087, 1088, 1086, 1084>>),
       StrCell(<<78, 65, 78>>),
       NumCell(Num(250, 0)),
       NumCell(Num(750, 0)),
       StrCell(<<82, 85, 66>>),
       NumCell(Num(0, 0)) >>

TradeRowPool == { TradeRowBuy, TradeRowSale, TradeRowUndated, TradeRowNanQuantity }

\* the title row of the transfers sheet:
\*   Неторговые операции, (empty), (empty), (empty), (empty), (empty)
TransfersTitle ==
    << StrCell(<<1053, 1077, 1090, 1086, 1088, 1075, 1086, 1074, 1099, 1077, 32, 1086, 1087, 1077, 1088, 1072, 1094, 1080, 1080>>),
       EmptyCell,
       EmptyCell,
       EmptyCell,
       EmptyCell,
       EmptyCell >>

\* the header row of the transfers sheet:
\*   Дата, Наименование операции, (empty), Тип, Комментарий, Количество
TransfersHeader ==
    << StrCell(<<1044, 1072, 1090, 1072>>),
       StrCell(<<1053, 1072, 1080, 1084, 1077, 1085, 1086, 1074, 1072, 1085, 1080, 1077, 32, 1086, 1087, 1077, 1088, 1072, 1094, 1080, 1080>>),
       EmptyCell,
       StrCell(<<1058, 1080, 1087>>),
       StrCell(<<1050, 1086, 1084, 1084, 1077, 1085, 1090, 1072, 1088, 1080, 1081>>),
       StrCell(<<1050, 1086, 1083, 1080, 1095, 1077, 1089, 1090, 1074, 1086>>) >>

\* a conversion that credits the asset:
\*   15.03.2023, x, RU0009029540 Сбер, Перевод, конвертация валюты, 10
TransferRowReceive ==
    << StrCell(<<49, 53, 46, 48, 51, 46, 50, 48, 50, 51>>),
       StrCell(<<120>>),
       StrCell(<<82, 85, 48, 48, 48, 57, 48, 50, 57, 53, 52, 48, 32, 1057, 1073, 1077, 1088>>),
       StrCell(<<1055, 1077, 1088, 1077, 1074, 1086, 1076>>),
       StrCell(<<1082, 1086, 1085, 1074, 1077, 1088, 1090, 1072, 1094, 1080, 1103, 32, 1074, 1072, 1083, 1102, 1090, 1099>>),
       NumCell(Num(10, 0)) >>

\* a conversion that debits it, dated by a date cell:
\*   2023-03-14 00:00:00, x, Газпром, Перевод ЦБ, Конверсия, -5
TransferRowWithdrawal ==
    << DateCell(Datetime(2023, 3, 14, 0, 0, 0)),
       StrCell(<<120>>),
       StrCell(<<1043, 1072, 1079, 1087, 1088, 1086, 1084>>),
       StrCell(<<1055, 1077, 1088, 1077, 1074, 1086, 1076, 32, 1062, 1041>>),
       StrCell(<<1050, 1086, 1085, 1074, 1077, 1088, 1089, 1080, 1103>>),
       StrCell(<<45, 53>>) >>

\* a conversion whose quantity cell is empty:
\*   13.03.2023, x, Газпром, Перевод, конвертация, (empty)
TransferRowBlankQuantity ==
    << StrCell(<<49, 51, 46, 48, 51, 46, 50, 48, 50, 51>>),
       StrCell(<<120>>),
       StrCell(<<1043, 1072, 1079, 1087, 1088, 1086, 1084>>),
       StrCell(<<1055, 1077, 1088, 1077, 1074, 1086, 1076>>),
       StrCell(<<1082, 1086, 1085, 1074, 1077, 1088, 1090, 1072, 1094, 1080, 1103>>),
       EmptyCell >>

\* a transfer that is not a conversion:
\*   17.03.2023, x, Газпром, Перевод, прочее, 3
TransferRowOther ==
    << StrCell(<<49, 55, 46, 48, 51, 46, 50, 48, 50, 51>>),
       StrCell(<<120>>),
       StrCell(<<1043, 1072, 1079, 1087, 1088, 1086, 1084>>),
       StrCell(<<1055, 1077, 1088, 1077, 1074, 1086, 1076>>),
       StrCell(<<1087, 1088, 1086, 1095, 1077, 1077>>),
       NumCell(Num(3, 0)) >>

TransferRowPool == { TransferRowReceive, TransferRowWithdrawal, TransferRowBlankQuantity,
                     TransferRowOther }

\* "report.xls"
PathXls == <<114, 101, 112, 111, 114, 116, 46, 120, 108, 115>>

\* "report.xlsx"
PathXlsx == <<114, 101, 112, 111, 114, 116, 46, 120, 108, 115, 120>>

\* "REPORT.XLSX"
PathUpper == <<82, 69, 80, 79, 82, 84, 46, 88, 76, 83, 88>>

\* "report.csv"
PathCsv == <<114, 101, 112, 111, 114, 116, 46, 99, 115, 118>>

Paths == { PathXls, PathXlsx, PathUpper, PathCsv }

\* the sheets of a report: all three; the trades sheet without its title row, so that
\* read_excel takes the header row for the column labels; without a transfers sheet;
\* a single sheet of another name
LayoutKinds == { "full", "untitled", "no_transfers", "single" }

Layout(kind, trade_rows, transfer_rows) ==
    IF kind = "full"
    THEN << Sheet(FIN_SHEET, FinGrid),
            Sheet(TRADES_SHEET, <<TradesTitle, TradesHeader>> \o trade_rows),
            Sheet(TRANSFERS_SHEET, <<TransfersTitle, TransfersHeader>> \o transfer_rows) >>
    ELSE IF kind = "untitled"
    THEN << Sheet(FIN_SHEET, FinGrid),
            Sheet(TRADES_SHEET, <<TradesHeader>> \o trade_rows),
            Sheet(TRANSFERS_SHEET, <<TransfersTitle, TransfersHeader>> \o transfer_rows) >>
    ELSE IF kind = "no_transfers"
    THEN << Sheet(FIN_SHEET, FinGrid),
            Sheet(TRADES_SHEET, <<TradesTitle, TradesHeader>> \o trade_rows) >>
    ELSE << Sheet(PLAIN_SHEET, <<TransfersTitle, TransfersHeader>> \o transfer_rows) >>

\* most data rows of a sheet
MaxRows == 2

\* the lists of at most n rows of a pool
RowLists(pool, n) == UNION { [1..k -> pool] : k \in 0..n }

\* every path, readable or not, with every layout of the same rows
FileVariants ==
    { Workbook(path, readable,
               Layout(kind, <<TradeRowBuy, TradeRowSale, TradeRowBuy>>,
                      <<TransferRowReceive, TransferRowBlankQuantity, TransferRowReceive>>)) :
        path \in Paths, readable \in BOOLEAN, kind \in LayoutKinds }

\* a readable report with every list of trades and at most one transfer, and with
\* every list of transfers and at most one trade
RowVariants ==
    { Workbook(PathXlsx, TRUE, Layout("full", rows[1], rows[2])) :
        rows \in (RowLists(TradeRowPool, MaxRows) \X RowLists(TransferRowPool, 1))
                 \cup (RowLists(TradeRowPool, 1) \X RowLists(TransferRowPool, MaxRows)) }

\* a cash-movement sheet of a header row and one data row:
\*   Дата создания заявки, Содержание операции, Сумма
ScenarioHeader ==
    << StrCell(<<1044, 1072, 1090, 1072, 32, 1089, 1086, 1079, 1076, 1072, 1085, 1080, 1103, 32, 1079, 1072, 1103, 1074, 1082, 1080>>),
       StrCell(<<1057, 1086, 1076, 1077, 1088, 1078, 1072, 1085, 1080, 1077, 32, 1086, 1087, 1077, 1088, 1072, 1094, 1080, 1080>>),
       StrCell(<<1057, 1091, 1084, 1084, 1072>>) >>

\*   15.03.2023, Дивиденды, 1 234,56
ScenarioRow ==
    << StrCell(<<49, 53, 46, 48, 51, 46, 50, 48, 50, 51>>),
       StrCell(<<1044, 1080, 1074, 1080, 1076, 1077, 1085, 1076, 1099>>),
       StrCell(<<49, 32, 50, 51, 52, 44, 53, 54>>) >>

\* "Движение денежных средств", the title line over the header in a broker's report
ScenarioTitle ==
    << StrCell(<<1044, 1074, 1080, 1078, 1077, 1085, 1080, 1077, 32, 1076, 1077, 1085, 1077, 1078, 1085, 1099, 1093, 32, 1089, 1088, 1077, 1076, 1089, 1090, 1074>>), EmptyCell, EmptyCell >>

\* the sheet as it is, and under a title line, so that the header row is a row of the
\* frame and not its column labels
ScenarioGrids == { <<ScenarioHeader, ScenarioRow>>, <<ScenarioTitle, ScenarioHeader, ScenarioRow>> }

CashVariants == { Workbook(PathXlsx, TRUE, <<Sheet(FIN_SHEET, grid)>>) : grid \in ScenarioGrids }

Workbooks == FileVariants \cup RowVariants \cup CashVariants

\* no call made yet
NotCalled == [fn |-> "", raised |-> FALSE, value |-> <<>>]

Init ==
    /\ pc = "call"
    /\ arg \in Workbooks
    /\ ret = NotCalled
    /\ fin = Idle /\ trd = Idle /\ trf = Idle /\ par = Idle

\* XlsFinancialOperationsParser().parse(file_path)
CallFinParse ==
    /\ pc = "call"
    /\ fin' = fin_parse(arg)
    /\ ret' = Returned("XlsFinancialOperationsParser.parse", fin')
    /\ pc' = "parsed"
    /\ UNCHANGED <<arg, trd, trf, par>>

\* parse_trades_from_xls(file_path)
CallTradesParse ==
    /\ pc = "call"
    /\ trd' = trades_parse(arg)
    /\ ret' = Returned("parse_trades_from_xls", trd')
    /\ pc' = "parsed"
    /\ UNCHANGED <<arg, fin, trf, par>>

\* parse_transfers_from_xls(file_path)
CallTransfersParse ==
    /\ pc = "call"
    /\ trf' = transfers_parse(arg)
    /\ ret' = Returned("parse_transfers_from_xls", trf')
    /\ pc' = "parsed"
    /\ UNCHANGED <<arg, fin, trd, par>>

\* parse_full_statement_xls(file_path): fin, trd and trf keep what the three parsers
\* returned, par the merged operations before they are serialised and sorted
CallParseFullStatement ==
    /\ pc = "call"
    /\ fin' = fin_parse(arg)
    /\ trd' = trades_parse(arg)
    /\ trf' = transfers_parse(arg)
    /\ par' = combined_ops(fin'.ops, trades_or_nothing(trd').ops, transfers_or_nothing(trf').ops)
    /\ ret' = Returned("parse_full_statement_xls", parse_full_statement_xls(arg, fin', trd', trf'))
    /\ pc' = "returned"
    /\ UNCHANGED arg

Next == CallFinParse \/ CallTradesParse \/ CallTransfersParse \/ CallParseFullStatement

Spec == Init /\ [][Next]_vars

----------------------------------------------------------------------------
(* The lists operations_dicts.sort(key=_sort_key_for_operation) is called on *)

\* longest enumerated list
MaxSorted == 3

\* "16.03.2023 10:30": not ISO, its first word is read as %d.%m.%Y
T_dotted == <<49, 54, 46, 48, 51, 46, 50, 48, 50, 51, 32, 49, 48, 58, 51, 48>>

\* "bad": no timestamp can be read from it
T_bad == <<98, 97, 100>>

\* a serialised operation with the fields the sort key reads and a comment telling
\* equal keys apart
SortEntry(date, operation_type, comment) ==
    [to_dict(PoolOp(<<Day1, operation_type, Zero, <<>>, <<>>, <<>>, comment>>))
        EXCEPT !.date = date]

\* entries without a timestamp, with an unreadable one, with timestamps in both
\* formats, with equal timestamps and different kinds, and with equal keys
SortPool ==
    { SortEntry(DateNone, K_sale, T_row1),
      SortEntry(DateText(T_bad), K_coupon, T_row1),
      SortEntry(DateText(isoformat(Day1)), K_buy, T_row1),
      SortEntry(DateText(isoformat(Day1)), K_buy, T_row2),
      SortEntry(DateText(isoformat(Day1)), K_sale, T_row1),
      SortEntry(DateText(isoformat(Day2)), K_buy, T_row1),
      SortEntry(DateText(T_dotted), K_dividend, T_row1) }

InitSort ==
    /\ pc = "sort"
    /\ arg \in UNION { [1..n -> SortPool] : n \in 0..MaxSorted }
    /\ ret = <<>>
    /\ fin = Idle /\ trd = Idle /\ trf = Idle /\ par = Idle

\* operations_dicts.sort(key=_sort_key_for_operation) inside its try block
CallSortOperations ==
    /\ pc = "sort"
    /\ ret' = SortOperations(arg)
    /\ pc' = "sorted"
    /\ UNCHANGED <<arg, fin, trd, trf, par>>

NextSort == CallSortOperations

SpecSort == InitSort /\ [][NextSort]_vars

----------------------------------------------------------------------------
(* One data row through XlsTradesParser._process_row and                   *)
(* XlsTransfersParser._process_row                                         *)

\* "15.03.2023"
T_date == <<49, 53, 46, 48, 51, 46, 50, 48, 50, 51>>

\* the date cell of the row: "15.03.2023" or empty
RowDates ==
    { <<49, 53, 46, 48, 51, 46, 50, 48, 50, 51>>,
      <<>> }

\* "Покупка"
T_buy_label == <<1055, 1086, 1082, 1091, 1087, 1082, 1072>>

\* "Продажа"
T_sell_label == <<1055, 1088, 1086, 1076, 1072, 1078, 1072>>

\* "Перевод"
T_transfer == <<1055, 1077, 1088, 1077, 1074, 1086, 1076>>

\* "конвертация валюты"
T_conversion == <<1082, 1086, 1085, 1074, 1077, 1088, 1090, 1072, 1094, 1080, 1103, 32, 1074, 1072, 1083, 1102, 1090, 1099>>

\* "прочее"
T_other == <<1087, 1088, 1086, 1095, 1077, 1077>>

\* the label cell: empty, "Покупка", "Продажа", "Перевод", "ПЕРЕВОД ЦБ", "Списание"
RowLabels ==
    { <<>>,
      <<1055, 1086, 1082, 1091, 1087, 1082, 1072>>,
      <<1055, 1088, 1086, 1076, 1072, 1078, 1072>>,
      <<1055, 1077, 1088, 1077, 1074, 1086, 1076>>,
      <<1055, 1045, 1056, 1045, 1042, 1054, 1044, 32, 1062, 1041>>,
      <<1057, 1087, 1080, 1089, 1072, 1085, 1080, 1077>> }

\* the comment cell: empty, "конвертация валюты", "Конверсия", "прочее"
RowComments ==
    { <<>>,
      <<1082, 1086, 1085, 1074, 1077, 1088, 1090, 1072, 1094, 1080, 1103, 32, 1074, 1072, 1083, 1102, 1090, 1099>>,
      <<1050, 1086, 1085, 1074, 1077, 1088, 1089, 1080, 1103>>,
      <<1087, 1088, 1086, 1095, 1077, 1077>> }

\* the quantity cell: the texts "-10" and "10", the numbers 2.5 and 0, or empty
RowNumbers ==
    { StrCell(<<45, 49, 48>>), StrCell(<<49, 48>>), NumCell(Num(25, 1)), NumCell(Zero), EmptyCell }

\* "usd"
T_usd_lower == <<117, 115, 100>>

\* the currency cell: empty, "RUB", "Руб", "USD", "usd"
RowCurrencies ==
    { <<>>,
      <<82, 85, 66>>,
      <<1056, 1091, 1073>>,
      <<85, 83, 68>>,
      <<117, 115, 100>> }

\* "Газпром"
T_Gazprom == <<1043, 1072, 1079, 1087, 1088, 1086, 1084>>

\* the cell of the instrument: empty, "RU0009029540", "ru0009029540 ао", "Газпром"
RowAssets ==
    { <<>>,
      <<82, 85, 48, 48, 48, 57, 48, 50, 57, 53, 52, 48>>,
      <<114, 117, 48, 48, 48, 57, 48, 50, 57, 53, 52, 48, 32, 1072, 1086>>,
      <<1043, 1072, 1079, 1087, 1088, 1086, 1084>> }

\* the cell pandas reads for a text: NaN for a cell without text
TextCell(s) == IF s = <<>> THEN EmptyCell ELSE StrCell(s)

\* the header row of a trades sheet that has a buy/sell label column:
\*   № сделки, Дата заключения, Код ISIN, Вид сделки, Количество, Цена, Сумма сделки, Валюта, Комментарий
RowTradesHeader ==
    << StrCell(<<8470, 32, 1089, 1076, 1077, 1083, 1082, 1080>>),
       StrCell(<<1044, 1072, 1090, 1072, 32, 1079, 1072, 1082, 1083, 1102, 1095, 1077, 1085, 1080, 1103>>),
       StrCell(<<1050, 1086, 1076, 32, 73, 83, 73, 78>>),
       StrCell(<<1042, 1080, 1076, 32, 1089, 1076, 1077, 1083, 1082, 1080>>),
       StrCell(<<1050, 1086, 1083, 1080, 1095, 1077, 1089, 1090, 1074, 1086>>),
       StrCell(<<1062, 1077, 1085, 1072>>),
       StrCell(<<1057, 1091, 1084, 1084, 1072, 32, 1089, 1076, 1077, 1083, 1082, 1080>>),
       StrCell(<<1042, 1072, 1083, 1102, 1090, 1072>>),
       StrCell(<<1050, 1086, 1084, 1084, 1077, 1085, 1090, 1072, 1088, 1080, 1081>>) >>

\* the trades row of the inputs, with price "100" and amount "1000"
TradesRowOf(a) ==
    << StrCell(<<84, 49>>), TextCell(a.date), TextCell(a.asset), TextCell(a.label), a.number,
       StrCell(<<49, 48, 48>>), StrCell(<<49, 48, 48, 48>>), TextCell(a.currency),
       TextCell(a.comment) >>

\* the header row of a transfers sheet:
\*   Дата, Наименование операции, Актив, Тип, Комментарий, Количество
RowTransfersHeader ==
    << StrCell(<<1044, 1072, 1090, 1072>>),
       StrCell(<<1053, 1072, 1080, 1084, 1077, 1085, 1086, 1074, 1072, 1085, 1080, 1077, 32, 1086, 1087, 1077, 1088, 1072, 1094, 1080, 1080>>),
       StrCell(<<1040, 1082, 1090, 1080, 1074>>),
       StrCell(<<1058, 1080, 1087>>),
       StrCell(<<1050, 1086, 1084, 1084, 1077, 1085, 1090, 1072, 1088, 1080, 1081>>),
       StrCell(<<1050, 1086, 1083, 1080, 1095, 1077, 1089, 1090, 1074, 1086>>) >>

\* the transfers row of the inputs
TransfersRowOf(a) ==
    << TextCell(a.date), StrCell(<<120>>), TextCell(a.asset), TextCell(a.label),
       TextCell(a.comment), a.number >>

RowInputs ==
    [date : RowDates, label : RowLabels, comment : RowComments, number : RowNumbers,
     currency : RowCurrencies, asset : RowAssets]

InitRow ==
    /\ pc = "row"
    /\ arg \in RowInputs
    /\ ret = NotCalled
    /\ fin = Idle /\ trd = Idle /\ trf = Idle /\ par = Idle

\* XlsTradesParser()._process_row(row, column_mapping) with the column mapping
\* _detect_columns makes of the header row
CallTradesProcessRow ==
    /\ pc = "row"
    /\ ret' = Returned("XlsTradesParser._process_row",
                       trades_process_row(TradesRowOf(arg),
                                          trades_map_columns(LowerRow(RowTradesHeader))))
    /\ pc' = "processed"
    /\ UNCHANGED <<arg, fin, trd, trf, par>>

\* XlsTransfersParser()._process_row(row, column_mapping, row_num) with the column
\* mapping _find_columns_by_structure makes of the header row
CallTransfersProcessRow ==
    /\ pc = "row"
    /\ ret' = Returned("XlsTransfersParser._process_row",
                       transfers_process_row(TransfersRowOf(arg),
                                             transfers_columns_around(RowTransfersHeader, 1)))
    /\ pc' = "processed"
    /\ UNCHANGED <<arg, fin, trd, trf, par>>

NextRow == CallTradesProcessRow \/ CallTransfersProcessRow

SpecRow == InitRow /\ [][NextRow]_vars

----------------------------------------------------------------------------
(* The loop of XlsFinancialOperationsParser._process_rows, row by row      *)

\* the header row the column mapping is made of:
\*   Дата создания заявки, Содержание операции, Комментарий, Сумма
FinRowsHeader ==
    << StrCell(<<1044, 1072, 1090, 1072, 32, 1089, 1086, 1079, 1076, 1072, 1085, 1080, 1103, 32, 1079, 1072, 1103, 1074, 1082, 1080>>),
       StrCell(<<1057, 1086, 1076, 1077, 1088, 1078, 1072, 1085, 1080, 1077, 32, 1086, 1087, 1077, 1088, 1072, 1094, 1080, 1080>>),
       StrCell(<<1050, 1086, 1084, 1084, 1077, 1085, 1090, 1072, 1088, 1080, 1081>>),
       StrCell(<<1057, 1091, 1084, 1084, 1072>>) >>

\* a dividend dated by a date cell:
\*   2023-03-15 00:00:00, Дивиденды, (empty), 1 234,56
FinRowDated ==
    << DateCell(Datetime(2023, 3, 15, 0, 0, 0)),
       StrCell(<<1044, 1080, 1074, 1080, 1076, 1077, 1085, 1076, 1099>>),
       EmptyCell,
       StrCell(<<49, 32, 50, 51, 52, 44, 53, 54>>) >>

\* a dividend dated by ISO text:
\*   2023-03-16, Дивиденды, по акциям, 100
FinRowIso ==
    << StrCell(<<50, 48, 50, 51, 45, 48, 51, 45, 49, 54>>),
       StrCell(<<1044, 1080, 1074, 1080, 1076, 1077, 1085, 1076, 1099>>),
       StrCell(<<1087, 1086, 32, 1072, 1082, 1094, 1080, 1103, 1084>>),
       StrCell(<<49, 48, 48>>) >>

\* a dividend without a date of its own:
\*   (empty), Дивиденды, (empty), 50
FinRowUndated ==
    << EmptyCell,
       StrCell(<<1044, 1080, 1074, 1080, 1076, 1077, 1085, 1076, 1099>>),
       EmptyCell,
       StrCell(<<53, 48>>) >>

\* a dividend whose date text is not in a format the parser reads:
\*   15.03.2023, Дивиденды, (empty), 10
FinRowDotted ==
    << StrCell(<<49, 53, 46, 48, 51, 46, 50, 48, 50, 51>>),
       StrCell(<<1044, 1080, 1074, 1080, 1076, 1077, 1085, 1076, 1099>>),
       EmptyCell,
       StrCell(<<49, 48>>) >>

\* a totals row with a date:
\*   2023-03-17 00:00:00, Итого, (empty), 500
FinRowTotal ==
    << DateCell(Datetime(2023, 3, 17, 0, 0, 0)),
       StrCell(<<1048, 1090, 1086, 1075, 1086>>),
       EmptyCell,
       StrCell(<<53, 48, 48>>) >>

\* a dividend of amount 0:
\*   2023-03-18 00:00:00, Дивиденды, (empty), 0
FinRowZero ==
    << DateCell(Datetime(2023, 3, 18, 0, 0, 0)),
       StrCell(<<1044, 1080, 1074, 1080, 1076, 1077, 1085, 1076, 1099>>),
       EmptyCell,
       NumCell(Num(0, 0)) >>

\* a dividend without an amount, and without a date of its own:
\*   (empty), Дивиденды, по акциям, (empty)
FinRowBlankAmount ==
    << EmptyCell,
       StrCell(<<1044, 1080, 1074, 1080, 1076, 1077, 1085, 1076, 1099>>),
       StrCell(<<1087, 1086, 32, 1072, 1082, 1094, 1080, 1103, 1084>>),
       EmptyCell >>

\* a row with a comment only, its amount not a number:
\*   2023-03-19 00:00:00, (empty), Дивиденды, abc
FinRowBadAmount ==
    << DateCell(Datetime(2023, 3, 19, 0, 0, 0)),
       EmptyCell,
       StrCell(<<1044, 1080, 1074, 1080, 1076, 1077, 1085, 1076, 1099>>),
       StrCell(<<97, 98, 99>>) >>

\* a row without label, comment and amount:
\*   2023-03-20 00:00:00, (empty), (empty), (empty)
FinRowBare ==
    << DateCell(Datetime(2023, 3, 20, 0, 0, 0)),
       EmptyCell,
       EmptyCell,
       EmptyCell >>

\* a leg of a trade settlement, which the trades sheet reports too:
\*   2023-03-21 00:00:00, Расчеты по сделке, (empty), 100
FinRowLeg ==
    << DateCell(Datetime(2023, 3, 21, 0, 0, 0)),
       StrCell(<<1056, 1072, 1089, 1095, 1077, 1090, 1099, 32, 1087, 1086, 32, 1089, 1076, 1077, 1083, 1082, 1077>>),
       EmptyCell,
       StrCell(<<49, 48, 48>>) >>

FinRowPool ==
    { FinRowDated,
      FinRowLeg,
      FinRowIso,
      FinRowUndated,
      FinRowDotted,
      FinRowTotal,
      FinRowZero,
      FinRowBlankAmount,
      FinRowBadAmount,
      FinRowBare }

\* most rows of the frame
MaxFinRows == 3

\* the column mapping _detect_columns makes of the header row, the amount in column 3
FinRowsMapping == fin_map_columns(LowerRow(FinRowsHeader), 3)

\* _process_rows(df, column_mapping) is called on a new parser: arg is the frame, par the
\* index of the next row, fin the operations, the statistics and last_valid_date
InitFinRows ==
    /\ pc = "rows"
    /\ arg \in UNION { [1..n -> FinRowPool] : n \in 0..MaxFinRows }
    /\ par = IF fin_find_header_row(arg) # -1 THEN fin_find_header_row(arg) + 1 ELSE 0
    /\ fin = [ops |-> <<>>, stats |-> FinStats0, last |-> NoDatetime]
    /\ ret = NotCalled
    /\ trd = Idle /\ trf = Idle

\* one iteration of the loop of _process_rows: the row is counted, processed by
\* _process_row_with_date_inheritance, and last_valid_date and operations are updated
ProcessRow ==
    /\ pc = "rows"
    /\ par < Len(arg)
    /\ fin' = process_row_with_date_inheritance(fin, arg[par + 1], FinRowsMapping)
    /\ par' = par + 1
    /\ UNCHANGED <<pc, arg, ret, trd, trf>>

\* the loop is over: _process_rows returns the operations
ReturnOperations ==
    /\ pc = "rows"
    /\ par >= Len(arg)
    /\ ret' = Returned("XlsFinancialOperationsParser._process_rows", fin.ops)
    /\ pc' = "processed"
    /\ UNCHANGED <<arg, fin, trd, trf, par>>

NextFinRows == ProcessRow \/ ReturnOperations

SpecFinRows == InitFinRows /\ [][NextFinRows]_vars

----------------------------------------------------------------------------
(* OperationDTO.to_dict on one operation                                   *)

\* operations with and without a date, of several kinds, sums and identifiers
DtoPool ==
    { OperationDTO(date, kind, payment_sum, RUB, ticker, isin, <<>>, Num(2505, 1),
                   Num(10, 0), Zero, comment, id, Num(15, 1)) :
        date \in {Day1, Day2, NoDate},
        kind \in {K_dividend, K_buy, K_sale},
        payment_sum \in {Zero, Num(123456, 2)},
        ticker \in {<<>>, T_SBER},
        isin \in {<<>>, T_ISIN},
        comment \in {<<>>, T_row1},
        id \in {<<>>, T_ID1} }

InitToDict ==
    /\ pc = "serialise"
    /\ arg \in DtoPool
    /\ ret = NotCalled
    /\ fin = Idle /\ trd = Idle /\ trf = Idle /\ par = Idle

\* arg.to_dict()
CallToDict ==
    /\ pc = "serialise"
    /\ ret' = Returned("OperationDTO.to_dict", to_dict(arg))
    /\ pc' = "serialised"
    /\ UNCHANGED <<arg, fin, trd, trf, par>>

NextToDict == CallToDict

SpecToDict == InitToDict /\ [][NextToDict]_vars

----------------------------------------------------------------------------
(* Two invocations of parse_full_statement_xls whose steps interleave      *)

\* the invocations
Invocations == {1, 2}

\* the order parse_full_statement_xls calls the category parsers in
NextCategory == [fin |-> "trades", trades |-> "transfers", transfers |-> "none"]

\* self.stats of a new parser of the category
Stats0(c) ==
    IF c = "fin" THEN FinStats0 ELSE IF c = "trades" THEN TradesStats0 ELSE TransfersStats0

\* one parser object per class, used by every invocation
SharedAddress(heap, c) == IF c = "fin" THEN 1 ELSE IF c = "trades" THEN 2 ELSE 3

\* the address of a parser object made by XlsFinancialOperationsParser(),
\* XlsTradesParser() or XlsTransfersParser(): a new object of the heap
NewAddress(heap, c) == Len(heap) + 1

\* the heap with the object at the address set
HeapPut(heap, address, stats) ==
    [a \in DOMAIN heap \cup {address} |-> IF a = address THEN stats ELSE heap[a]]

\* the local variables of one parse() call: the parser object, the frame, the column
\* mapping, the index of the next row and of the row after the last one,
\* last_valid_date, the operations so far, and what the call returned
NoFrame ==
    [self |-> 0, df |-> <<>>, column_mapping |-> <<>>, next |-> 0, stop |-> 0,
     last |-> NoDatetime, ops |-> <<>>, done |-> FALSE, result |-> <<>>]

\* the sheet found by the first statements of parse(): the engine for the suffix, the
\* file opened, the sheet of the category
OpenedSheet(book, c, engine) ==
    IF ~engine.ok THEN engine
    ELSE IF ~book.readable THEN Raised(E_unreadable)
    ELSE IF c = "fin" THEN find_financial_sheet(sheet_names(book))
    ELSE IF c = "trades" THEN find_trades_sheet(sheet_names(book))
    ELSE find_transfers_sheet(sheet_names(book))

\* the frame parse() reads from the sheet
FrameOf(book, c, sheet) ==
    IF c = "transfers" THEN preprocess_dataframe(GridOf(book, sheet))
    ELSE preprocess_dataframe(read_excel(GridOf(book, sheet)))

\* the statistics after the column detection, and the rows to process or the exception
Columns(stats, rows) == [stats |-> stats, rows |-> rows]

Rows(column_mapping, start, stop) ==
    Done([column_mapping |-> column_mapping, start |-> start, stop |-> stop])

\* XlsFinancialOperationsParser: _detect_columns, then the start of _process_rows
fin_columns(df, stats, header_row) ==
    IF header_row = -1 THEN Columns(stats, Raised(E_no_header))
    ELSE LET amount == find_amount_column(df, header_row, LowerRow(df[header_row + 1]))
             column_mapping == fin_map_columns(LowerRow(df[header_row + 1]), amount.col)
         IN  Columns([stats EXCEPT !.currency_for_amount = amount.currency,
                                   !.column_mapping = column_mapping],
                     Rows(column_mapping, header_row + 1, Len(df)))

\* XlsTradesParser: _detect_columns, then the start of _process_rows
trades_columns(df, stats, header_row, columns) ==
    IF ~columns.ok THEN Columns(stats, columns)
    ELSE Columns([stats EXCEPT !.column_mapping = columns.v],
                 Rows(columns.v, header_row + 1,
                      IF Len(df) < header_row + 1 + TradesRowLimit THEN Len(df)
                      ELSE header_row + 1 + TradesRowLimit))

\* XlsTransfersParser: _find_columns_by_structure, then the start of _process_rows
transfers_columns(df, stats, column_mapping, start_row) ==
    Columns([stats EXCEPT !.column_mapping = column_mapping],
            IF ~start_row.ok THEN start_row ELSE Rows(column_mapping, start_row.v, Len(df)))

DetectedColumns(df, c, stats) ==
    IF c = "fin" THEN fin_columns(df, stats, fin_find_header_row(df))
    ELSE IF c = "trades"
         THEN trades_columns(df, stats, trades_find_header_row(df), trades_detect_columns(df))
    ELSE transfers_columns(df, stats, find_columns_by_structure(df),
                           find_data_start_row(df, find_columns_by_structure(df)))

\* one iteration of the loop of _process_rows of the category: operations, statistics
\* and last_valid_date after the row
RowProcessed(c, acc, row, column_mapping) ==
    IF c = "fin" THEN process_row_with_date_inheritance(acc, row, column_mapping)
    ELSE IF c = "trades"
         THEN [last |-> acc.last] @@
              trades_add_row([ops |-> acc.ops, stats |-> acc.stats],
                             trades_process_row(row, column_mapping))
    ELSE [last |-> acc.last] @@
         transfers_add_row([ops |-> acc.ops, stats |-> acc.stats], row,
                           transfers_process_row(row, column_mapping))

\* what parse() returns after the loop: a copy of the statistics, finalised for the
\* cash movements
ParseResult(c, ops, stats) ==
    [ops |-> ops, stats |-> IF c = "fin" THEN finalize_stats(stats) ELSE stats]

\* the frame of the category in the invocation
FrameIn(i, c) == IF c = "fin" THEN fin[i] ELSE IF c = "trades" THEN trd[i] ELSE trf[i]

\* the frames of a category with the frame of the invocation replaced when c is it
PutFrame(frames, category, c, i, frame) ==
    IF c = category THEN [frames EXCEPT ![i] = frame] ELSE frames

\* the statement after the parse() call of the category: the next parser, or the merge
After(c) ==
    IF NextCategory[c] = "none" THEN [cat |-> c, phase |-> "merge"]
    ELSE [cat |-> NextCategory[c], phase |-> "new"]

\* a report with two trades and two transfers, one with an undated trade and no
\* transfers sheet, and a file that is no workbook
InterleavedBooks ==
    { Workbook(PathXlsx, TRUE,
               Layout("full", <<TradeRowBuy, TradeRowSale>>,
                      <<TransferRowReceive, TransferRowOther>>)),
      Workbook(PathXls, TRUE, Layout("no_transfers", <<TradeRowUndated, TradeRowSale>>, <<>>)),
      Workbook(PathCsv, TRUE, Layout("single", <<>>, <<TransferRowWithdrawal>>)) }

InitInterleaved ==
    /\ pc = [i \in Invocations |-> [cat |-> "fin", phase |-> "new"]]
    /\ arg \in [Invocations -> InterleavedBooks]
    /\ ret = [i \in Invocations |-> NotCalled]
    /\ fin = [i \in Invocations |-> NoFrame]
    /\ trd = [i \in Invocations |-> NoFrame]
    /\ trf = [i \in Invocations |-> NoFrame]
    /\ par = <<>>

\* the variables after a step of invocation i in the parse() call of category c
Step(i, c, position, frame, heap) ==
    /\ pc' = [pc EXCEPT ![i] = position]
    /\ fin' = PutFrame(fin, "fin", c, i, frame)
    /\ trd' = PutFrame(trd, "trades", c, i, frame)
    /\ trf' = PutFrame(trf, "transfers", c, i, frame)
    /\ par' = heap
    /\ UNCHANGED <<arg, ret>>

\* parse() leaves through its except branch: [], {"error": str(e), **self.stats}
StepRaised(i, c, frame, heap, msg) ==
    Step(i, c, After(c),
         [frame EXCEPT !.done = TRUE, !.result = Failure(heap[frame.self], msg)], heap)

\* the parser of the next category is constructed: __init__ makes its self.stats
NewParser(i) ==
    /\ pc[i].phase = "new"
    /\ Step(i, pc[i].cat, [pc[i] EXCEPT !.phase = "open"],
            [NoFrame EXCEPT !.self = NewAddress(par, pc[i].cat)],
            HeapPut(par, NewAddress(par, pc[i].cat), Stats0(pc[i].cat)))

\* parse() up to self.stats["detected_sheet"] = sheet_name and the frame read
OpenSheet(i) ==
    /\ pc[i].phase = "open"
    /\ LET c == pc[i].cat
           sheet == OpenedSheet(arg[i], c,
                                detect_engine(arg[i].path,
                                              IF c = "transfers" THEN E_format
                                              ELSE E_format_file))
       IN  IF ~sheet.ok THEN StepRaised(i, c, FrameIn(i, c), par, sheet.err)
           ELSE Step(i, c, [pc[i] EXCEPT !.phase = "detect"],
                     [FrameIn(i, c) EXCEPT !.df = FrameOf(arg[i], c, sheet.v)],
                     [par EXCEPT ![FrameIn(i, c).self].detected_sheet = sheet.v])

\* parse() up to self.stats["column_mapping"] = column_mapping and the first row of
\* _process_rows
DetectColumns(i) ==
    /\ pc[i].phase = "detect"
    /\ LET c == pc[i].cat
           frame == FrameIn(i, c)
           detected == DetectedColumns(frame.df, c, par[frame.self])
       IN  IF ~detected.rows.ok
           THEN StepRaised(i, c, frame, [par EXCEPT ![frame.self] = detected.stats],
                           detected.rows.err)
           ELSE Step(i, c, [pc[i] EXCEPT !.phase = "rows"],
                     [frame EXCEPT !.column_mapping = detected.rows.v.column_mapping,
                                   !.next = detected.rows.v.start,
                                   !.stop = detected.rows.v.stop],
                     [par EXCEPT ![frame.self] = detected.stats])

\* one iteration of the loop of _process_rows: the row updates self.stats
ProcessNextRow(i) ==
    /\ pc[i].phase = "rows"
    /\ FrameIn(i, pc[i].cat).next < FrameIn(i, pc[i].cat).stop
    /\ LET c == pc[i].cat
           frame == FrameIn(i, c)
           acc == RowProcessed(c, [ops |-> frame.ops, stats |-> par[frame.self],
                                   last |-> frame.last],
                               frame.df[frame.next + 1], frame.column_mapping)
       IN  Step(i, c, pc[i],
                [frame EXCEPT !.ops = acc.ops, !.last = acc.last, !.next = @ + 1],
                [par EXCEPT ![frame.self] = acc.stats])

\* the loop is over: parse() returns the operations and a copy of self.stats
ReturnParsed(i) ==
    /\ pc[i].phase = "rows"
    /\ FrameIn(i, pc[i].cat).next >= FrameIn(i, pc[i].cat).stop
    /\ Step(i, pc[i].cat, After(pc[i].cat),
            [FrameIn(i, pc[i].cat) EXCEPT
                !.done = TRUE,
                !.result = ParseResult(pc[i].cat, FrameIn(i, pc[i].cat).ops,
                                       par[FrameIn(i, pc[i].cat).self])],
            par)

\* the rest of parse_full_statement_xls, all on its local variables: the account ids,
\* the statistics of a failed category replaced, deduplication, the date range, the
\* sort and the meta block
MergeAndReturn(i) ==
    /\ pc[i].phase = "merge"
    /\ ret' = [ret EXCEPT ![i] = Returned("parse_full_statement_xls",
                                          parse_full_statement_xls(arg[i], fin[i].result,
                                                                   trd[i].result,
                                                                   trf[i].result))]
    /\ pc' = [pc EXCEPT ![i].phase = "returned"]
    /\ UNCHANGED <<arg, fin, trd, trf, par>>

NextInterleaved ==
    \E i \in Invocations :
        \/ NewParser(i)
        \/ OpenSheet(i)
        \/ DetectColumns(i)
        \/ ProcessNextRow(i)
        \/ ReturnParsed(i)
        \/ MergeAndReturn(i)

SpecInterleaved == InitInterleaved /\ [][NextInterleaved]_vars

----------------------------------------------------------------------------
(* determine_operation_type on labels the rules and tables do not resolve  *)

\* the labels:
\*   "Перевод"
\*   "ПЕРЕВОД денежных средств"
\*   " перевод "
\*   "Зачисление"
\*   " Прочее "
\*   ""
\*   "  "
\*   "Переводы между площадками"
TransferLabels ==
    { <<1055, 1077, 1088, 1077, 1074, 1086, 1076>>,
      <<1055, 1045, 1056, 1045, 1042, 1054, 1044, 32, 1076, 1077, 1085, 1077, 1078, 1085, 1099, 1093, 32, 1089, 1088, 1077, 1076, 1089, 1090, 1074>>,
      <<32, 1087, 1077, 1088, 1077, 1074, 1086, 1076, 32>>,
      <<1047, 1072, 1095, 1080, 1089, 1083, 1077, 1085, 1080, 1077>>,
      <<32, 1055, 1088, 1086, 1095, 1077, 1077, 32>>,
      <<>>,
      <<32, 32>>,
      <<1055, 1077, 1088, 1077, 1074, 1086, 1076, 1099, 32, 1084, 1077, 1078, 1076, 1091, 32, 1087, 1083, 1086, 1097, 1072, 1076, 1082, 1072, 1084, 1080>> }

\* every phrase of TRANSFER_COMMENT_PATTERNS
TransferPhrases ==
    UNION { { TRANSFER_COMMENT_PATTERNS[i].patterns[j] :
                j \in 1..Len(TRANSFER_COMMENT_PATTERNS[i].patterns) } :
            i \in 1..Len(TRANSFER_COMMENT_PATTERNS) }

\* "; "
T_semicolon == <<59, 32>>

\* "прочий текст"
T_other_text == <<1087, 1088, 1086, 1095, 1080, 1081, 32, 1090, 1077, 1082, 1089, 1090>>

\* the comments: none, a text without a phrase, one phrase, two phrases in either order;
\* each also in upper case
TransferComments ==
    UNION { { c, UpperStr(c) } :
            c \in {<<>>, T_other_text} \cup TransferPhrases
                  \cup { p \o T_semicolon \o q : p \in TransferPhrases, q \in TransferPhrases } }

InitTransferComment ==
    /\ pc = "classify"
    /\ arg \in [label : TransferLabels, comment : TransferComments, amount : {Num(5, 0)}]
    /\ ret = NotReturned
    /\ fin = Idle /\ trd = Idle /\ trf = Idle /\ par = Idle

NextTransferComment == CallDetermineOperationType

SpecTransferComment == InitTransferComment /\ [][NextTransferComment]_vars

----------------------------------------------------------------------------
(* XlsFinancialOperationsParser._find_header_row on frames                 *)

\* a header row naming the request number:
\*   Дата создания заявки, Номер заявки, Сумма
HeaderByRequest ==
    << StrCell(<<1044, 1072, 1090, 1072, 32, 1089, 1086, 1079, 1076, 1072, 1085, 1080, 1103, 32, 1079, 1072, 1103, 1074, 1082, 1080>>),
       StrCell(<<1053, 1086, 1084, 1077, 1088, 32, 1079, 1072, 1103, 1074, 1082, 1080>>),
       StrCell(<<1057, 1091, 1084, 1084, 1072>>) >>

\* a header row naming the contract number, in lower case:
\*   дата создания заявки, номер договора, сумма
HeaderByContract ==
    << StrCell(<<1076, 1072, 1090, 1072, 32, 1089, 1086, 1079, 1076, 1072, 1085, 1080, 1103, 32, 1079, 1072, 1103, 1074, 1082, 1080>>),
       StrCell(<<1085, 1086, 1084, 1077, 1088, 32, 1076, 1086, 1075, 1086, 1074, 1086, 1088, 1072>>),
       StrCell(<<1089, 1091, 1084, 1084, 1072>>) >>

\* a row with the date marker alone:
\*   Дата создания заявки, Сумма
HeaderDateOnly ==
    << StrCell(<<1044, 1072, 1090, 1072, 32, 1089, 1086, 1079, 1076, 1072, 1085, 1080, 1103, 32, 1079, 1072, 1103, 1074, 1082, 1080>>),
       StrCell(<<1057, 1091, 1084, 1084, 1072>>) >>

\* a row with an operation marker alone:
\*   Дата, Содержание операции, Сумма
HeaderOperationOnly ==
    << StrCell(<<1044, 1072, 1090, 1072>>),
       StrCell(<<1057, 1086, 1076, 1077, 1088, 1078, 1072, 1085, 1080, 1077, 32, 1086, 1087, 1077, 1088, 1072, 1094, 1080, 1080>>),
       StrCell(<<1057, 1091, 1084, 1084, 1072>>) >>

\* the rows a frame has after its leading title rows
HeaderRowPool ==
    { ScenarioHeader, HeaderByRequest, HeaderByContract, HeaderDateOnly,
      HeaderOperationOnly, ScenarioRow }

\* most title rows before the first other row
MaxLead == 21

\* n title rows
TitleRows(n) == [i \in 1..n |-> ScenarioTitle]

\* the frames: title rows, then one or two rows of the pool
HeaderFrames ==
    { TitleRows(n) \o rows :
        n \in 0..MaxLead,
        rows \in { <<r>> : r \in HeaderRowPool }
                 \cup { <<r, ScenarioHeader>> : r \in HeaderRowPool } }

InitHeaderRow ==
    /\ pc = "locate"
    /\ arg \in HeaderFrames
    /\ ret = NotCalled
    /\ fin = Idle /\ trd = Idle /\ trf = Idle /\ par = Idle

\* XlsFinancialOperationsParser._find_header_row(df)
CallFindHeaderRow ==
    /\ pc = "locate"
    /\ ret' = Returned("XlsFinancialOperationsParser._find_header_row",
                       fin_find_header_row(arg))
    /\ pc' = "located"
    /\ UNCHANGED <<arg, fin, trd, trf, par>>

NextHeaderRow == CallFindHeaderRow

SpecHeaderRow == InitHeaderRow /\ [][NextHeaderRow]_vars

----------------------------------------------------------------------------
(* The sheet locators of the three parsers on lists of sheet names         *)

\* the sheet names:
\*   "Лист1"
\*   "Движение ДС"
\*   "Финансовые операции"
\*   "СДЕЛКИ"
\*   "Trades"
\*   "Неторговые операции"
\*   "Конвертации"
\*   "Transfers"
SheetNamePool ==
    { <<1051, 1080, 1089, 1090, 49>>,
      <<1044, 1074, 1080, 1078, 1077, 1085, 1080, 1077, 32, 1044, 1057>>,
      <<1060, 1080, 1085, 1072, 1085, 1089, 1086, 1074, 1099, 1077, 32, 1086, 1087, 1077, 1088, 1072, 1094, 1080, 1080>>,
      <<1057, 1044, 1045, 1051, 1050, 1048>>,
      <<84, 114, 97, 100, 101, 115>>,
      <<1053, 1077, 1090, 1086, 1088, 1075, 1086, 1074, 1099, 1077, 32, 1086, 1087, 1077, 1088, 1072, 1094, 1080, 1080>>,
      <<1050, 1086, 1085, 1074, 1077, 1088, 1090, 1072, 1094, 1080, 1080>>,
      <<84, 114, 97, 110, 115, 102, 101, 114, 115>> }

\* most sheets of a file
MaxSheets == 3

InitSheets ==
    /\ pc = "locate sheet"
    /\ arg \in UNION { [1..n -> SheetNamePool] : n \in 0..MaxSheets }
    /\ ret = NotCalled
    /\ fin = Idle /\ trd = Idle /\ trf = Idle /\ par = Idle

\* XlsFinancialOperationsParser._find_financial_sheet(sheet_names)
CallFindFinancialSheet ==
    /\ pc = "locate sheet"
    /\ ret' = Returned("XlsFinancialOperationsParser._find_financial_sheet",
                       find_financial_sheet(arg))
    /\ pc' = "sheet located"
    /\ UNCHANGED <<arg, fin, trd, trf, par>>

\* XlsTradesParser._find_trades_sheet(sheet_names)
CallFindTradesSheet ==
    /\ pc = "locate sheet"
    /\ ret' = Returned("XlsTradesParser._find_trades_sheet", find_trades_sheet(arg))
    /\ pc' = "sheet located"
    /\ UNCHANGED <<arg, fin, trd, trf, par>>

\* XlsTransfersParser._find_transfers_sheet(sheet_names)
CallFindTransfersSheet ==
    /\ pc = "locate sheet"
    /\ ret' = Returned("XlsTransfersParser._find_transfers_sheet", find_transfers_sheet(arg))
    /\ pc' = "sheet located"
    /\ UNCHANGED <<arg, fin, trd, trf, par>>

NextSheets == CallFindFinancialSheet \/ CallFindTradesSheet \/ CallFindTransfersSheet

SpecSheets == InitSheets /\ [][NextSheets]_vars

----------------------------------------------------------------------------
(* XlsTradesParser._process_row on rows with an instrument name            *)

\* re.sub(r'[^\w\s\.\-]', '', asset_name)
RECURSIVE KeepNameChars(_)
KeepNameChars(s) ==
    IF s = <<>> THEN <<>>
    ELSE IF IsWordChar(Head(s)) \/ IsSpace(Head(s)) \/ Head(s) \in {46, 45}
         THEN <<Head(s)>> \o KeepNameChars(Tail(s))
         ELSE KeepNameChars(Tail(s))

\* [A-ZА-Я0-9]
IsTickerChar(c) == c \in 65..90 \/ c \in 1040..1071 \/ IsDigit(c)

\* [A-ZА-Я0-9]{1,6} matches the whole of s
IsTickerStem(s) == Len(s) \in 1..6 /\ \A i \in 1..Len(s) : IsTickerChar(s[i])

\* [A-Z]{1,4} matches the whole of s
IsTickerSuffix(s) == Len(s) \in 1..4 /\ \A i \in 1..Len(s) : s[i] \in 65..90

\* [A-ZА-Я0-9]{1,6}(\.[A-Z]{1,4})? matches the whole of s
IsTickerCode(s) ==
    IF FirstIn(s, {46}) = 0 THEN IsTickerStem(s)
    ELSE /\ IsTickerStem(SubSeq(s, 1, FirstIn(s, {46}) - 1))
         /\ IsTickerSuffix(SubSeq(s, FirstIn(s, {46}) + 1, Len(s)))

\* the positions where \(([A-ZА-Я0-9]{1,6}(\.[A-Z]{1,4})?)\) matches in asset_name
ParenCodeStarts(asset_name) ==
    { i \in 1..Len(asset_name) :
        /\ asset_name[i] = 40
        /\ \E j \in (i + 1)..Len(asset_name) :
              asset_name[j] = 41 /\ IsTickerCode(SubSeq(asset_name, i + 1, j - 1)) }

\* group(1) of the match that starts at position i
ParenCodeAt(asset_name, i) ==
    SubSeq(asset_name, i + 1,
           i + FirstIn(SubSeq(asset_name, i + 1, Len(asset_name)), {41}) - 1)

\* XlsTradesParser._extract_ticker_from_name: the first word of the name without its
\* punctuation when it is a ticker code, else the first code in parentheses, else ""
extract_ticker_from_name(asset_name) ==
    IF asset_name = <<>> THEN <<>>
    ELSE IF IsTickerCode(FirstWord(Strip(KeepNameChars(asset_name))))
         THEN FirstWord(Strip(KeepNameChars(asset_name)))
    ELSE IF ParenCodeStarts(asset_name) # {}
         THEN ParenCodeAt(asset_name, FirstOf(ParenCodeStarts(asset_name), 0))
    ELSE <<>>

\* the instrument names:
\*   ""
\*   "SBER"
\*   "SBER ао"
\*   "Сбербанк (SBER)"
\*   "Сбербанк"
\*   "ГАЗП"
\*   "Яндекс (YNDX.ME)"
\*   "SBER.ME"
\*   "sber"
\*   "«ЛУКОЙЛ» ао"
\*   "Сбербанк (обыкн.) (SBERP)"
\*   "ВСЕРОССИЙСКИЙ (long)"
TickerAssets ==
    { <<>>,
      <<83, 66, 69, 82>>,
      <<83, 66, 69, 82, 32, 1072, 1086>>,
      <<1057, 1073, 1077, 1088, 1073, 1072, 1085, 1082, 32, 40, 83, 66, 69, 82, 41>>,
      <<1057, 1073, 1077, 1088, 1073, 1072, 1085, 1082>>,
      <<1043, 1040, 1047, 1055>>,
      <<1071, 1085, 1076, 1077, 1082, 1089, 32, 40, 89, 78, 68, 88, 46, 77, 69, 41>>,
      <<83, 66, 69, 82, 46, 77, 69>>,
      <<115, 98, 101, 114>>,
      <<171, 1051, 1059, 1050, 1054, 1049, 1051, 187, 32, 1072, 1086>>,
      <<1057, 1073, 1077, 1088, 1073, 1072, 1085, 1082, 32, 40, 1086, 1073, 1099, 1082, 1085, 46, 41, 32, 40, 83, 66, 69, 82, 80, 41>>,
      <<1042, 1057, 1045, 1056, 1054, 1057, 1057, 1048, 1049, 1057, 1050, 1048, 1049, 32, 40, 108, 111, 110, 103, 41>> }

\* the row of the trades sheet under TradesHeader, with price "100" and amount "1000"
NamedTradeRowOf(a) ==
    << StrCell(<<84, 49>>), TextCell(a.date), StrCell(T_ISIN), TextCell(a.asset), a.number,
       StrCell(<<49, 48, 48>>), StrCell(<<49, 48, 48, 48>>), StrCell(RUB), StrCell(<<48>>) >>

InitNamedRow ==
    /\ pc = "named row"
    /\ arg \in [date : RowDates, number : RowNumbers, asset : TickerAssets]
    /\ ret = NotCalled
    /\ fin = Idle /\ trd = Idle /\ trf = Idle /\ par = Idle

\* XlsTradesParser()._process_row(row, column_mapping) with the column mapping
\* _detect_columns makes of the header row of the trades sheet
CallTradesProcessNamedRow ==
    /\ pc = "named row"
    /\ ret' = Returned("XlsTradesParser._process_row",
                       trades_process_row(NamedTradeRowOf(arg),
                                          trades_map_columns(LowerRow(TradesHeader))))
    /\ pc' = "processed"
    /\ UNCHANGED <<arg, fin, trd, trf, par>>

NextNamedRow == CallTradesProcessNamedRow

SpecNamedRow == InitNamedRow /\ [][NextNamedRow]_vars

----------------------------------------------------------------------------
(* parse_full_statement_xls from the return of the three parsers on        *)

\* date, kind, sum, ticker, isin, id, comment of the operations the parsers returned:
\* two with the same identifier, two with the same composite key, one without a date
MergeFields ==
    { <<Datetime(2023, 2, 28, 10, 30, 0), K_buy, Num(10, 0), <<>>, <<>>, T_ID1, T_row1>>,
      <<Datetime(2023, 3, 1, 0, 0, 0), K_sale, Num(20, 0), <<>>, <<>>, T_ID1_padded, T_row2>>,
      <<Datetime(2023, 3, 1, 9, 0, 0), K_dividend, Num(10, 0), <<>>, <<>>, <<>>, T_row1>>,
      <<Datetime(2023, 3, 1, 9, 0, 0), K_dividend, Num(10, 0), <<>>, <<>>, <<>>, T_row2>>,
      <<NoDate, K_dividend, Num(20, 0), <<>>, <<>>, <<>>, T_row1>>,
      <<Day1, K_coupon, Num(10, 0), <<>>, <<>>, <<>>, T_row1>> }

MergePool == { PoolOp(f) : f \in MergeFields }

\* most operations the three parsers return together
MaxMerged == 3

\* what a parser returns for the operations ops: every row parsed
ParsedAll(ops, stats) ==
    [ops |-> ops, stats |-> [stats EXCEPT !.total_rows = Len(ops), !.parsed = Len(ops)]]

\* the three parsers have returned: arg is every operation in the order cash movements,
\* trades, transfers; fin, trd and trf hold what each parser returned
InitMerge ==
    /\ pc = "merge"
    /\ arg \in UNION { [1..n -> MergePool] : n \in 0..MaxMerged }
    /\ \E i \in 0..Len(arg) : \E j \in i..Len(arg) :
          /\ fin = ParsedAll(SubSeq(arg, 1, i), FinStats0)
          /\ trd = ParsedAll(SubSeq(arg, i + 1, j), TradesStats0)
          /\ trf = ParsedAll(SubSeq(arg, j + 1, Len(arg)), TransfersStats0)
    /\ par = Idle
    /\ ret = NotCalled

\* parse_full_statement_xls after the parsers: the lists are deduplicated one by one and
\* concatenated (par), the date range is taken, the operations are serialised and
\* sorted, and the result is returned
MergeParsed ==
    /\ pc = "merge"
    /\ par' = combined_ops(fin.ops, trades_or_nothing(trd).ops, transfers_or_nothing(trf).ops)
    /\ ret' = Returned("parse_full_statement_xls",
                       statement_of(<<>>, fin, trades_or_nothing(trd),
                                    transfers_or_nothing(trf)))
    /\ pc' = "merged"
    /\ UNCHANGED <<arg, fin, trd, trf>>

NextMerge == MergeParsed

SpecMerge == InitMerge /\ [][NextMerge]_vars

----------------------------------------------------------------------------
(* The loops of _process_rows of the three parsers, row by row             *)

\* a trade of quantity 0:
\*   T5, 17.03.2023, RU0007661625, Газпром, 0, 2.5, 0, RUB, 0
TradeRowZeroQuantity ==
    <<StrCell(<<84, 53>>), StrCell(<<49, 55, 46, 48, 51, 46, 50, 48, 50, 51>>), StrCell(<<82, 85, 48, 48, 48, 55, 54, 54, 49, 54, 50, 53>>), StrCell(<<1043, 1072, 1079, 1087, 1088, 1086, 1084>>), NumCell(Num(0, 0)), NumCell(Num(25, 1)), NumCell(Num(0, 0)), StrCell(<<82, 85, 66>>), NumCell(Num(0, 0))>>

\* a conversion without a date:
\*   (empty), x, Газпром, Перевод, конвертация, 4
TransferRowUndated ==
    <<EmptyCell, StrCell(<<120>>), StrCell(<<1043, 1072, 1079, 1087, 1088, 1086, 1084>>), StrCell(<<1055, 1077, 1088, 1077, 1074, 1086, 1076>>), StrCell(<<1082, 1086, 1085, 1074, 1077, 1088, 1090, 1072, 1094, 1080, 1103>>), NumCell(Num(4, 0))>>

\* a conversion of quantity 0:
\*   18.03.2023, x, Газпром, Перевод, конвертация, 0
TransferRowZeroQuantity ==
    <<StrCell(<<49, 56, 46, 48, 51, 46, 50, 48, 50, 51>>), StrCell(<<120>>), StrCell(<<1043, 1072, 1079, 1087, 1088, 1086, 1084>>), StrCell(<<1055, 1077, 1088, 1077, 1074, 1086, 1076>>), StrCell(<<1082, 1086, 1085, 1074, 1077, 1088, 1090, 1072, 1094, 1080, 1103>>), NumCell(Num(0, 0))>>

\* the rows of the frame of a category
LoopRowPool(c) ==
    IF c = "fin" THEN FinRowPool
    ELSE IF c = "trades" THEN TradeRowPool \cup {TradeRowZeroQuantity}
    ELSE TransferRowPool \cup {TransferRowUndated, TransferRowZeroQuantity}

\* the column mapping the parser of a category makes of its header row
LoopMapping(c) ==
    IF c = "fin" THEN FinRowsMapping
    ELSE IF c = "trades" THEN trades_map_columns(LowerRow(TradesHeader))
    ELSE transfers_columns_around(TransfersHeader, 1)

\* start_row of _process_rows
LoopStart(c, df) ==
    IF c = "fin" THEN (IF fin_find_header_row(df) # -1 THEN fin_find_header_row(df) + 1 ELSE 0)
    ELSE IF c = "trades"
         THEN (IF trades_find_header_row(df) # -1 THEN trades_find_header_row(df) + 1 ELSE 0)
    ELSE find_data_start_row(df, LoopMapping(c)).v

\* most rows of a frame
MaxLoopRows == 3

\* _process_rows(df, column_mapping) is called on a new parser of category arg.c: par is
\* the index of the next row; fin, trd or trf holds the operations and the statistics
\* of the parser
InitLoops ==
    /\ pc = "loop"
    /\ \E c \in {"fin", "trades", "transfers"} :
          /\ arg \in [c : {c}, df : UNION { [1..n -> LoopRowPool(c)] : n \in 0..MaxLoopRows }]
          /\ fin = IF c = "fin" THEN [ops |-> <<>>, stats |-> FinStats0, last |-> NoDatetime]
                   ELSE Idle
          /\ trd = IF c = "trades" THEN [ops |-> <<>>, stats |-> TradesStats0] ELSE Idle
          /\ trf = IF c = "transfers" THEN [ops |-> <<>>, stats |-> TransfersStats0] ELSE Idle
    /\ par = LoopStart(arg.c, arg.df)
    /\ ret = NotCalled

\* one iteration of the loop of XlsFinancialOperationsParser._process_rows
ProcessFinRow ==
    /\ pc = "loop" /\ arg.c = "fin"
    /\ par < Len(arg.df)
    /\ fin' = process_row_with_date_inheritance(fin, arg.df[par + 1], LoopMapping("fin"))
    /\ par' = par + 1
    /\ UNCHANGED <<pc, arg, ret, trd, trf>>

\* one iteration of the loop of XlsTradesParser._process_rows
ProcessTradesRow ==
    /\ pc = "loop" /\ arg.c = "trades"
    /\ par < Len(arg.df) /\ par < LoopStart("trades", arg.df) + TradesRowLimit
    /\ trd' = trades_add_row(trd, trades_process_row(arg.df[par + 1], LoopMapping("trades")))
    /\ par' = par + 1
    /\ UNCHANGED <<pc, arg, ret, fin, trf>>

\* one iteration of the loop of XlsTransfersParser._process_rows
ProcessTransfersRow ==
    /\ pc = "loop" /\ arg.c = "transfers"
    /\ par < Len(arg.df)
    /\ trf' = transfers_add_row(trf, arg.df[par + 1],
                                transfers_process_row(arg.df[par + 1],
                                                      LoopMapping("transfers")))
    /\ par' = par + 1
    /\ UNCHANGED <<pc, arg, ret, fin, trd>>

\* the loop is over: _process_rows returns the operations
ReturnLoop ==
    /\ pc = "loop"
    /\ par >= Len(arg.df)
    /\ ret' = Returned("_process_rows",
                       IF arg.c = "fin" THEN fin.ops
                       ELSE IF arg.c = "trades" THEN trd.ops ELSE trf.ops)
    /\ pc' = "looped"
    /\ UNCHANGED <<arg, fin, trd, trf, par>>

NextLoops == ProcessFinRow \/ ProcessTradesRow \/ ProcessTransfersRow \/ ReturnLoop

SpecLoops == InitLoops /\ [][NextLoops]_vars

----------------------------------------------------------------------------
(* Properties                                                              *)

\* p occurs in s when both are compared letter by letter without regard to case
ContainsCI(p, s) ==
    \E i \in 0..(Len(s) - Len(p)) : \A j \in 1..Len(p) : Lower(s[i + j]) = Lower(p[j])

\* the dedup key as the specification describes it: the external id when it is not
\* blank, otherwise the composite of ISO date, kind, sum, ticker and ISIN
DedupKey(op) ==
    IF Strip(op.operation_id) # <<>> THEN <<"id", Strip(op.operation_id)>>
    ELSE <<"auto", op.date, op.operation_type, op.payment_sum, op.ticker, op.isin>>

\* positions of L that hold the first occurrence of their dedup key
FirstOccurrences(L) ==
    { i \in 1..Len(L) : \A j \in 1..(i - 1) : DedupKey(L[j]) # DedupKey(L[i]) }

\* sub is L restricted to the positions of set keep, in the original order
IsRestriction(sub, L, keep) ==
    /\ Len(sub) = Cardinality(keep)
    /\ \A n \in 1..Len(sub) :
          \E i \in keep : sub[n] = L[i] /\ Cardinality({j \in keep : j < i}) = n - 1

\* the call whose result the variable of a category holds has been made
FinParsed == pc = "returned" \/ (pc = "parsed" /\ ret.fn = "XlsFinancialOperationsParser.parse")

TradesParsed == pc = "returned" \/ (pc = "parsed" /\ ret.fn = "parse_trades_from_xls")

TransfersParsed == pc = "returned" \/ (pc = "parsed" /\ ret.fn = "parse_transfers_from_xls")

\* the category failed: its statistics carry an error
HasError(parsed) == "error" \in DOMAIN parsed.stats

\* number of operations of a category that survive deduplication, none if it failed
Contribution(parsed) ==
    IF HasError(parsed) THEN 0 ELSE Cardinality(FirstOccurrences(parsed.ops))

\* the serialised form of every deduplicated operation of the category is in the list
AllPresent(parsed, operations) ==
    \A i \in FirstOccurrences(parsed.ops) :
        \E n \in 1..Len(operations) : operations[n] = to_dict(parsed.ops[i])

\* C1: parse_full_statement_xls returns a result with operations, meta, account_id,
\* date_start and date_end whatever the three category parsers returned; it never raises,
\* a category that failed contributes no operation, and every deduplicated operation of
\* a category that succeeded is in the returned list.
C1_AlwaysReturns ==
    pc = "returned" =>
        /\ ~ret.raised
        /\ DOMAIN ret.value = {"operations", "meta", "account_id", "date_start", "date_end"}
        /\ Len(ret.value.operations)
              = Contribution(fin) + Contribution(trd) + Contribution(trf)
        /\ \A parsed \in {fin, trd, trf} :
              ~HasError(parsed) => AllPresent(parsed, ret.value.operations)

\* the trades parser failed, the transfers parser returned three operations of which two
\* are the same, and the result holds exactly the two distinct ones
C1_Witness ==
    /\ pc = "returned"
    /\ HasError(fin) /\ HasError(trd) /\ ~HasError(trf)
    /\ Len(trf.ops) = 3 /\ Cardinality(FirstOccurrences(trf.ops)) = 2
    /\ Len(ret.value.operations) = 2

\* the structural failures: no sheet in the workbook, no header row in the sheet
StructuralErrors == {E_no_sheets_excel, E_no_sheets, E_no_header}

FailedStructurally(parsed) == HasError(parsed) /\ parsed.stats.error \in StructuralErrors

\* the statistics of the category in meta carry the error string of the parser
ErrorReported(parsed, stats) == "error" \in DOMAIN stats /\ stats.error = parsed.stats.error

\* C2: whenever a category parser fails structurally, the result of
\* parse_full_statement_xls carries the error string in that category's statistics in
\* meta (fin_ops_stats, trade_ops_stats, transfer_ops_stats).
C2_ErrorReachesMeta ==
    pc = "returned" =>
        /\ FailedStructurally(fin) => ErrorReported(fin, ret.value.meta.fin_ops_stats)
        /\ FailedStructurally(trd) => ErrorReported(trd, ret.value.meta.trade_ops_stats)
        /\ FailedStructurally(trf) => ErrorReported(trf, ret.value.meta.transfer_ops_stats)

\* the suffix of the path is neither .xls nor .xlsx
Unsupported(path) ==
    ~EndsWith(LowerStr(path), DotXls) /\ ~EndsWith(LowerStr(path), DotXlsx)

\* what parse() may return: nothing but an error, or operations counted by the statistics
WellFormed(parsed) ==
    /\ DOMAIN parsed = {"ops", "stats"}
    /\ HasError(parsed) => parsed.ops = <<>> /\ parsed.stats.error # <<>>
    /\ ~HasError(parsed) => parsed.stats.parsed = Len(parsed.ops)

\* the frame the trades parser searches for its header row
TradesFrame(book) ==
    preprocess_dataframe(read_excel(GridOf(book, find_trades_sheet(sheet_names(book)).v)))

Emitted(parsed) == { parsed.ops[i] : i \in 1..Len(parsed.ops) }

\* C4: every operation a category parser emits has payment_sum >= 0 and quantity >= 0.
C4_NonNegative ==
    /\ FinParsed => \A op \in Emitted(fin) : FGe0(op.payment_sum) /\ FGe0(op.quantity)
    /\ TradesParsed => \A op \in Emitted(trd) : FGe0(op.payment_sum) /\ FGe0(op.quantity)
    /\ TransfersParsed => \A op \in Emitted(trf) : FGe0(op.payment_sum) /\ FGe0(op.quantity)

\* C5: _dedupe_ops returns the subsequence made of the first occurrence of every dedup
\* key, in the original relative order (key: external id when non-blank, else ISO date,
\* kind, sum, ticker, ISIN); two operations with no id and equal date/kind/sum/ticker/
\* isin collapse to the earlier one, and no two operations of the output share a key.
C5_DedupeFirstOccurrences ==
    pc \in {"deduped", "deduped_twice"} =>
        /\ IsRestriction(ret.first, arg, FirstOccurrences(arg))
        /\ \A i, j \in 1..Len(ret.first) :
              i # j => DedupKey(ret.first[i]) # DedupKey(ret.first[j])

\* a list of two operations with no id that differ in the comment only was collapsed to
\* the earlier one
C5_Witness ==
    /\ pc = "deduped"
    /\ Len(arg) = 2 /\ arg[1] # arg[2]
    /\ arg[1].operation_id = <<>> /\ arg[2].operation_id = <<>>
    /\ DedupKey(arg[1]) = DedupKey(arg[2])
    /\ ret.first = <<arg[1]>>

\* C6: deduplication is idempotent: _dedupe_ops(_dedupe_ops(L)) is _dedupe_ops(L), same
\* elements, same order, same count.
C6_DedupeIdempotent == pc = "deduped_twice" => ret.second = ret.first

\* a list with duplicates was deduplicated twice
C6_Witness ==
    /\ pc = "deduped_twice"
    /\ Len(arg) = 3 /\ Len(ret.first) = 2 /\ ret.second = ret.first

\* the timestamp of a serialised operation: the minimum when it is missing or unreadable
Timestamp(op_dict) ==
    IF op_dict.date.isnone THEN DatetimeMin
    ELSE IF fromisoformat(op_dict.date.s).ok THEN fromisoformat(op_dict.date.s).d
    ELSE IF strptime(FirstWord(op_dict.date.s), F_dmY).ok
         THEN strptime(FirstWord(op_dict.date.s), F_dmY).d
    ELSE DatetimeMin

\* (timestamp, kind) of a is not after that of b
InOrder(a, b) ==
    \/ DtLess(Timestamp(a), Timestamp(b))
    \/ /\ Timestamp(a) = Timestamp(b)
       /\ (a.operation_type = b.operation_type \/ StrLess(a.operation_type, b.operation_type))

\* the two lists hold the same entries the same number of times
SameEntries(s, t) ==
    /\ Len(s) = Len(t)
    /\ \A i \in 1..Len(s) :
          Cardinality({ j \in 1..Len(s) : s[j] = s[i] })
              = Cardinality({ j \in 1..Len(t) : t[j] = s[i] })

\* C7: the sorted operations are ordered by (timestamp ascending, then kind ascending):
\* every adjacent pair is in order, an operation with a missing or unreadable timestamp
\* is placed as if its timestamp were the minimum, and operations of the same timestamp
\* are ordered by kind.
C7_SortedByTimestampAndKind ==
    pc = "sorted" =>
        /\ SameEntries(ret, arg)
        /\ \A i \in 1..(Len(ret) - 1) : InOrder(ret[i], ret[i + 1])

\* an entry without timestamp came last and two entries of the same timestamp came in
\* descending order of kind: the sort reversed the list
C7_Witness ==
    /\ pc = "sorted"
    /\ Len(arg) = 3
    /\ arg[3].date.isnone /\ ~arg[1].date.isnone
    /\ Timestamp(arg[1]) = Timestamp(arg[2]) /\ Timestamp(arg[1]) # DatetimeMin
    /\ StrLess(arg[2].operation_type, arg[1].operation_type)
    /\ ret = <<arg[3], arg[2], arg[1]>>

\* the label matches the exact label table or the substring label table
LabelInTables(label) ==
    \E i \in 1..Len(OPERATION_TYPE_MAP) :
        \/ label = OPERATION_TYPE_MAP[i].key
        \/ ContainsCI(OPERATION_TYPE_MAP[i].key, label)

\* C8: in determine_operation_type the dynamic rules take priority over the label
\* tables: for a label that matches a dynamic-rule pattern and also the exact or the
\* substring label table, the returned kind is the one the dynamic rule produces.
C8_DynamicRuleFirst ==
    (/\ pc = "classified"
     /\ ret.fn = "determine_operation_type"
     /\ ContainsCI(NDFL, arg.label)
     /\ LabelInTables(arg.label))
    => ret.value = NdflHandler(arg.label, arg.amount, arg.comment)

\* a label holding both the withholding-tax pattern and a key of the label table was
\* classified as a refund
C8_Witness ==
    /\ pc = "classified"
    /\ ret.fn = "determine_operation_type"
    /\ ContainsCI(NDFL, arg.label)
    /\ LabelInTables(arg.label)
    /\ ret.value = K_refund

\* C9: should_skip_operation returns true if and only if labelSource is empty or holds,
\* compared case-insensitively and at any position, one of the fixed skip phrases.
C9_SkipIffPhrase ==
    (pc = "classified" /\ ret.fn = "should_skip_operation")
    => (ret.value <=> (\/ arg.label = <<>>
                       \/ \E p \in SKIP_OPERATIONS : ContainsCI(p, arg.label)))

\* a skip phrase in another casing than the table's, with text around it, was skipped
C9_Witness ==
    /\ pc = "classified"
    /\ ret.fn = "should_skip_operation"
    /\ ret.value = TRUE
    /\ \E p \in SKIP_OPERATIONS :
          /\ ContainsCI(p, arg.label)
          /\ ~Contains(p, arg.label)
          /\ Len(arg.label) = Len(p) + 2

\* C10: number coercion is total: for every text to_float_safe returns a finite number
\* and never raises, and the cash-movement amount extraction never raises and resolves
\* an unparsable amount to 0.
C10_CoercionTotal ==
    pc = "coerced" =>
        /\ ~ret.raised
        /\ IsFinite(ret.value)
        /\ ((\A i \in 1..Len(arg) : ~IsDigit(arg[i])) => ret.value = Zero)

\* "1 234,56": thousands separated by a space, decimal comma
T_grouped_by_space == <<49, 32, 50, 51, 52, 44, 53, 54>>

\* "1.234,56": thousands separated by a dot, decimal comma
T_grouped_by_dot == <<49, 46, 50, 51, 52, 44, 53, 54>>

\* "−5": the sign is U+2212 MINUS SIGN
T_unicode_minus == <<8722, 53>>

\* C11: every number coercion of the parsers (to_float_safe, _extract_amount) reads
\* "1 234,56" and "1.234,56" as 1234.56 and "−5" as -5.0.
C11_LocaleFormats ==
    pc = "coerced" =>
        /\ (arg \in {T_grouped_by_space, T_grouped_by_dot} => ret.value = Num(123456, 2))
        /\ (arg = T_unicode_minus => ret.value = Num(-5, 0))

\* C12: parsing a cash-movement sheet of a header row and one data row with date text
\* "15.03.2023", amount "1 234,56" and label "Дивиденды" yields exactly one operation,
\* of kind "dividend" and sum 1234.56.
C12_ScenarioDividend ==
    (pc = "parsed" /\ ret.fn = "XlsFinancialOperationsParser.parse" /\ arg \in CashVariants)
    => /\ Len(fin.ops) = 1
       /\ fin.ops[1].operation_type = K_dividend
       /\ fin.ops[1].payment_sum = Num(123456, 2)

\* the row went through the trades parser / the transfers parser
TradesRowProcessed == pc = "processed" /\ ret.fn = "XlsTradesParser._process_row"

TransfersRowProcessed == pc = "processed" /\ ret.fn = "XlsTransfersParser._process_row"

\* the row has a valid date and a quantity, and the quantity is not zero
DatedWithQuantity ==
    arg.date = T_date /\ arg.number # EmptyCell /\ ~FEq0(to_float_safe(arg.number))

\* C13: a trades row with a valid date and a non-zero quantity q yields an operation whose
\* kind is that of the buy/sell label when the row has one, and otherwise "sale" with
\* quantity |q| when q < 0 and "buy" with quantity q when q > 0.
C13_KindFromLabelElseSign ==
    (TradesRowProcessed /\ DatedWithQuantity)
    => /\ Len(ret.value.ops) = 1
       /\ ret.value.ops[1].quantity = FAbs(to_float_safe(arg.number))
       /\ ret.value.ops[1].operation_type =
             IF arg.label = T_buy_label THEN K_buy
             ELSE IF arg.label = T_sell_label THEN K_sale
             ELSE IF FGt0(to_float_safe(arg.number)) THEN K_buy ELSE K_sale

\* C14: a transfers row with a valid date and a non-zero quantity yields an operation if
\* and only if its label contains "перевод" and its comment names a conversion, in any
\* casing; a row that yields none is counted as skipped_not_conversion.
C14_ConversionOnly ==
    (TransfersRowProcessed /\ DatedWithQuantity)
    => /\ Len(ret.value.ops) = 1
          <=> /\ ContainsCI(TRANSFER_MARKER, arg.label)
              /\ \E p \in CONVERSION_MARKERS : ContainsCI(p, arg.comment)
       /\ Len(ret.value.ops) # 1
          => ret.value.ops = <<>> /\ ret.value.counter = "skipped_not_conversion"
       /\ (arg.label = T_transfer /\ arg.comment = T_conversion) => ret.value.counter = "parsed"
       /\ (arg.label = T_transfer /\ arg.comment = T_other)
          => ret.value.counter = "skipped_not_conversion"

\* the transfer "Перевод" with comment "прочее" was discarded and counted
C14_Witness ==
    /\ TransfersRowProcessed /\ DatedWithQuantity
    /\ arg.label = T_transfer /\ arg.comment = T_other
    /\ ret.value.ops = <<>>
    /\ ret.value.counter = "skipped_not_conversion"

\* the codes CURRENCY_DICT maps its spellings to
CanonicalCurrencies == { CURRENCY_DICT[i].code : i \in DOMAIN CURRENCY_DICT }

\* C18: the currency of every operation a category parser emits is empty or an uppercase
\* canonical currency code, whatever the currency cell of the row held.
C18_CurrencyCanonical ==
    (pc = "processed" /\ ret.value.ops # <<>>)
    => \/ ret.value.ops[1].currency = <<>>
       \/ /\ ret.value.ops[1].currency \in CanonicalCurrencies
          /\ ret.value.ops[1].currency = UpperStr(ret.value.ops[1].currency)

\* two letters, nine letters or digits, and a digit: twelve characters in all
IsIsinCode(s) == Len(s) = 12 /\ IsinAt(s, 1)

\* C19: the ISIN of every operation a category parser emits is empty or a 12-character
\* code of the ISIN pattern; text without such a code never becomes the ISIN.
C19_IsinWellFormed ==
    (pc = "processed" /\ ret.value.ops # <<>>)
    => (ret.value.ops[1].isin = <<>> \/ IsIsinCode(ret.value.ops[1].isin))

\* the date a row of the pool carries in its own date cell, ok = FALSE when the cell is
\* empty or its text is not a date the parser reads
OwnDate(row) ==
    IF row[1].t = "date" THEN [ok |-> TRUE, d |-> row[1].d]
    ELSE IF row = FinRowIso THEN [ok |-> TRUE, d |-> Datetime(2023, 3, 16, 0, 0, 0)]
    ELSE NoDatetime

\* the date of the last of the first n rows that has a valid date of its own
RECURSIVE LastValidDate(_, _)
LastValidDate(df, n) ==
    IF n = 0 THEN NoDatetime
    ELSE IF OwnDate(df[n]).ok THEN OwnDate(df[n])
    ELSE LastValidDate(df, n - 1)

\* the loop of _process_rows is about to process a row
AtRow == pc = "rows" /\ par < Len(arg)

\* C15: in the loop over the rows of the cash-movement sheet, a row whose date cell is
\* empty is processed with the date of the most recent preceding row that had a valid
\* date (the operation it yields carries that date), and when no preceding row had one
\* the row is skipped and yields nothing.
C15_DateInheritance ==
    [][(AtRow /\ IsNa(arg[par + 1][1]))
       => IF LastValidDate(arg, par).ok
          THEN /\ fin'.last = LastValidDate(arg, par)
               /\ Len(fin'.ops) > Len(fin.ops)
                  => fin'.ops[Len(fin'.ops)].date = LastValidDate(arg, par).d
               /\ arg[par + 1] = FinRowUndated => Len(fin'.ops) = Len(fin.ops) + 1
          ELSE /\ fin'.ops = fin.ops
               /\ fin'.stats.skipped = fin.stats.skipped + 1
               /\ ~fin'.last.ok]_vars

\* the third row has no date and took the date of the first one, over a row between
\* them whose date text was not read
C15_Witness ==
    /\ pc = "rows" /\ par = 3
    /\ arg = <<FinRowDated, FinRowDotted, FinRowUndated>>
    /\ Len(fin.ops) = 2
    /\ fin.ops[2].date = Datetime(2023, 3, 15, 0, 0, 0)
    /\ fin.ops[2].payment_sum = Num(50, 0)
    /\ fin.stats.skipped = 1

\* the amount cell resolves to 0: it is empty, the number 0, or text without a digit
AmountIsZero(row) ==
    \/ row[4].t = "empty"
    \/ row[4].t = "num" /\ FEq0(row[4].v)
    \/ row[4].t = "str" /\ \A i \in 1..Len(row[4].s) : ~IsDigit(row[4].s[i])

\* C20: in the cash-movement parser a row whose resolved amount is zero never yields an
\* operation, whatever its label and comment are, and is counted as skipped.
C20_ZeroAmountSkipped ==
    [][(AtRow /\ AmountIsZero(arg[par + 1]))
       => /\ fin'.ops = fin.ops
          /\ fin'.stats.skipped = fin.stats.skipped + 1]_vars

\* the canonical fields of an operation other than its timestamp
OtherFields ==
    {"operation_type", "payment_sum", "currency", "ticker", "isin", "reg_number", "price",
     "quantity", "aci", "comment", "operation_id", "commission"}

\* C17: to_dict gives the timestamp as ISO-8601 text when the operation has one and as
\* the empty string when it has none, copies every other canonical field unchanged and
\* leaves the internal sort key out of the record.
C17_ToDict ==
    pc = "serialised" =>
        /\ ret.value.date = DateText(IF arg.date # NoDate THEN isoformat(arg.date) ELSE <<>>)
        /\ \A f \in OtherFields : ret.value[f] = arg[f]
        /\ DOMAIN ret.value = OtherFields \cup {"date"}

\* the parser objects of an invocation
Owned(i) == { frame.self : frame \in {fin[i], trd[i], trf[i]} } \ {0}

\* C16: two invocations of parse_full_statement_xls whose steps interleave arbitrarily
\* each return what the invocation returns when it runs alone, and the parser objects
\* (statistics and column maps) of one are never those of the other.
C16_InvocationsIndependent ==
    /\ Owned(1) \cap Owned(2) = {}
    /\ \A i \in Invocations :
          pc[i].phase = "returned"
          => ret[i].value = parse_full_statement_xls(arg[i], fin_parse(arg[i]),
                                                     trades_parse(arg[i]),
                                                     transfers_parse(arg[i]))

\* the first invocation returned its statement while the second, on another report, was
\* in the loop over its trades with one row counted
C16_Witness ==
    /\ pc[1].phase = "returned"
    /\ Len(ret[1].value.operations) >= 2
    /\ pc[2] = [cat |-> "trades", phase |-> "rows"]
    /\ arg[1] # arg[2]
    /\ par[trd[2].self].total_rows = 1
    /\ par[trd[1].self].total_rows = 2

\* the counters of the statistics of the cash-movement parser other than total_rows and
\* parsed
FinSkipCounters(stats) ==
    DOMAIN stats \ {"total_rows", "parsed", "example_comments", "amounts_by_mapped_type",
                    "amounts_by_label", "total_income", "total_expense", "detected_sheet",
                    "column_mapping", "currency_for_amount"}

\* why row n of the frame is skipped: it has no date (its date text is not read, or its
\* date cell is empty and no row before it had a date), it is a totals row, it is a leg
\* of a trade, it has neither a label nor an amount; "" for the other rows
SkipReason(df, n) ==
    IF ~OwnDate(df[n]).ok /\ (~IsNa(df[n][1]) \/ ~LastValidDate(df, n - 1).ok) THEN "date"
    ELSE IF df[n] = FinRowTotal THEN "totals row"
    ELSE IF df[n] = FinRowLeg THEN "duplicate trade leg"
    ELSE IF df[n] = FinRowBare THEN "zero amount"
    ELSE ""

\* C21: each reason for skipping a row has a counter of its own in the statistics of the
\* cash-movement parser, so after any number of rows the statistics show at least as
\* many non-zero skip counters as there were different reasons among the rows skipped.
C21_CounterPerSkipReason ==
    pc = "rows"
    => Cardinality({ k \in FinSkipCounters(fin.stats) : fin.stats[k] > 0 })
       >= Cardinality({ SkipReason(arg, n) : n \in 1..par } \ {""})

\* C22: a label that holds the withholding-tax pattern, in any casing and at any
\* position, is classified as "refund" when the signed amount is above 0 and as
\* "withholding" when it is 0 or below, whatever the comment is.
C22_WithholdingTaxBySign ==
    (/\ pc = "classified"
     /\ ret.fn = "determine_operation_type"
     /\ ContainsCI(NDFL, arg.label))
    => /\ (arg.amount.k = "num" /\ arg.amount.m > 0) => ret.value = K_refund
       /\ (arg.amount.k = "num" /\ arg.amount.m <= 0) => ret.value = K_withholding

\* a label holding the pattern in lower case, with text around it and a comment that
\* names a dividend, was classified as withholding for the amount 0
C22_Witness ==
    /\ pc = "classified"
    /\ ret.fn = "determine_operation_type"
    /\ ContainsCI(NDFL, arg.label)
    /\ ~Contains(NDFL, arg.label)
    /\ Len(arg.label) > Len(NDFL)
    /\ arg.comment # <<>>
    /\ arg.amount = Zero
    /\ ret.value = K_withholding

\* the categories of the phrase lists in the order they are tried
TransferCategories ==
    << K_coupon, K_amortization, K_repayment, K_deposit, K_dividend, K_withdrawal,
       K_other_income >>

\* the phrases of the list of a category
PhrasesOf(kind) ==
    UNION { { TRANSFER_COMMENT_PATTERNS[i].patterns[j] :
                j \in 1..Len(TRANSFER_COMMENT_PATTERNS[i].patterns) } :
            i \in { n \in 1..Len(TRANSFER_COMMENT_PATTERNS) :
                      TRANSFER_COMMENT_PATTERNS[n].kind = kind } }

\* the positions in TransferCategories of the lists with a phrase inside the comment
MatchingLists(comment_lower) ==
    { i \in 1..Len(TransferCategories) :
        \E p \in PhrasesOf(TransferCategories[i]) : Contains(p, comment_lower) }

\* C23: for a label that neither the dynamic rule nor the label tables resolve and that
\* holds the transfer marker, determine_operation_type returns the category of the
\* first phrase list, in the order coupon, amortization, repayment, deposit, dividend,
\* withdrawal, other_income, with a phrase inside the lower-cased comment, and
\* "transfer" when no list has one; without the marker it returns the trimmed label,
\* or "unknown" when the label is blank.
C23_TransferByComment ==
    (/\ pc = "classified"
     /\ ret.fn = "determine_operation_type"
     /\ ~ContainsCI(NDFL, arg.label)
     /\ ~LabelInTables(arg.label))
    => IF ContainsCI(PEREVOD, arg.label)
       THEN IF MatchingLists(LowerStr(arg.comment)) = {}
            THEN ret.value = K_transfer
            ELSE \E i \in MatchingLists(LowerStr(arg.comment)) :
                    /\ ret.value = TransferCategories[i]
                    /\ \A j \in MatchingLists(LowerStr(arg.comment)) : i <= j
       ELSE IF Strip(arg.label) # <<>> THEN ret.value = Strip(arg.label)
            ELSE ret.value = K_unknown

\* a transfer whose upper-case comment names a dividend and then the redemption of a
\* coupon was classified as a coupon
C23_Witness ==
    /\ pc = "classified"
    /\ ret.fn = "determine_operation_type"
    /\ ContainsCI(PEREVOD, arg.label)
    /\ arg.comment = UpperStr(TRANSFER_COMMENT_PATTERNS[5].patterns[1] \o T_semicolon
                              \o TRANSFER_COMMENT_PATTERNS[1].patterns[1])
    /\ ret.value = K_coupon

\* the row holds the date marker and one of the operation/contract markers, the texts
\* compared without regard to case
HoldsMarkers(row) ==
    /\ \E c \in 1..Len(row) : \E p \in FIN_DATE_MARKER : ContainsCI(p, PyStr(row[c]))
    /\ \E c \in 1..Len(row) : \E p \in FIN_OPERATION_MARKERS : ContainsCI(p, PyStr(row[c]))

\* C24: the header-row locator of the cash-movement parser returns the index of the
\* first of the first 20 rows that holds the date marker and one of the operation or
\* contract markers, compared case-insensitively, and reports no header row (-1) only
\* when none of those rows does.
C24_HeaderRowLocated ==
    pc = "located"
    => ret.value = FirstOf({ i \in 0..(Len(arg) - 1) :
                               i < 20 /\ HoldsMarkers(arg[i + 1]) }, -1)

\* the keywords and the exact names of the locator that was called
KeywordsOf(fn) ==
    IF fn = "XlsFinancialOperationsParser._find_financial_sheet" THEN FIN_SHEET_KEYWORDS
    ELSE IF fn = "XlsTradesParser._find_trades_sheet" THEN TRADES_SHEET_KEYWORDS
    ELSE TRANSFERS_SHEET_KEYWORDS

ExactNamesOf(fn) ==
    IF fn = "XlsFinancialOperationsParser._find_financial_sheet" THEN FIN_FALLBACK_NAMES
    ELSE IF fn = "XlsTradesParser._find_trades_sheet" THEN TRADES_FALLBACK_NAMES
    ELSE TRANSFERS_EXACT_NAMES

\* the second keyword list, which the transfers locator alone has
LooseKeywordsOf(fn) ==
    IF fn = "XlsTransfersParser._find_transfers_sheet" THEN TRANSFERS_LOOSE_KEYWORDS ELSE {}

\* the positions of the sheets whose lower-cased name holds one of the keywords
SheetsWith(names, keywords) ==
    { i \in 1..Len(names) : \E k \in keywords : Contains(k, LowerStr(names[i])) }

\* the positions in the exact-name list of the names that are sheets of the file
ExactFound(names, exact) ==
    { j \in 1..Len(exact) : \E i \in 1..Len(names) : names[i] = exact[j] }

\* the sheet the steps give for a file with sheets: keyword, exact name, the keywords
\* of list loose, first sheet
SheetBySteps(names, keywords, exact, loose) ==
    IF SheetsWith(names, keywords) # {} THEN names[FirstOf(SheetsWith(names, keywords), 0)]
    ELSE IF ExactFound(names, exact) # {} THEN exact[FirstOf(ExactFound(names, exact), 0)]
    ELSE IF SheetsWith(names, loose) # {} THEN names[FirstOf(SheetsWith(names, loose), 0)]
    ELSE names[1]

\* C25 as stated: every sheet locator tries the keywords, then the exact names, then
\* the first sheet, and the first step that succeeds decides; the result is a sheet of
\* the file, and the locator raises if and only if the file has no sheet.
C25_ThreeSteps ==
    pc = "sheet located"
    => /\ ~ret.value.ok <=> arg = <<>>
       /\ ret.value.ok
          => /\ \E i \in 1..Len(arg) : arg[i] = ret.value.v
             /\ ret.value.v = SheetBySteps(arg, KeywordsOf(ret.fn), ExactNamesOf(ret.fn), {})

\* C25, amended: the locators of the cash-movement and trades parsers try the keywords,
\* the exact names and the first sheet in this order; the locator of the transfers
\* parser tries, between the exact names and the first sheet, a second and looser
\* keyword list. The first step that succeeds decides, the result is a sheet of the
\* file, a sheet whose name holds a keyword is preferred to any other candidate, and
\* the locator raises if and only if the file has no sheet.
C25_StepsInOrder ==
    pc = "sheet located"
    => /\ ~ret.value.ok <=> arg = <<>>
       /\ ret.value.ok
          => /\ \E i \in 1..Len(arg) : arg[i] = ret.value.v
             /\ SheetsWith(arg, KeywordsOf(ret.fn)) # {}
                => \E k \in KeywordsOf(ret.fn) : Contains(k, LowerStr(ret.value.v))
             /\ ret.value.v = SheetBySteps(arg, KeywordsOf(ret.fn), ExactNamesOf(ret.fn),
                                           LooseKeywordsOf(ret.fn))

\* the trades locator took the second sheet, whose upper-case name holds the keyword,
\* although the first sheet has an exact fallback name
C25_Witness ==
    /\ pc = "sheet located"
    /\ ret.fn = "XlsTradesParser._find_trades_sheet"
    /\ Len(arg) = 2
    /\ arg[1] = TRADES_FALLBACK_NAMES[3]
    /\ SheetsWith(arg, TRADES_SHEET_KEYWORDS) = {2}
    /\ ret.value = Done(arg[2])

\* C26: every operation the trades parser emits carries the ticker extracted from the
\* instrument name of its row, so a row whose name yields a ticker never gives an
\* operation with an empty ticker.
C26_TickerFromName ==
    (pc = "processed" /\ ret.value.ops # <<>>)
    => ret.value.ops[1].ticker = extract_ticker_from_name(Strip(arg.asset))

\* the year, month and day a text "dd.mm.yyyy" names
DayOfText(s) ==
    << DigitsValue(SubSeq(s, 7, 10)), DigitsValue(SubSeq(s, 4, 5)), DigitsValue(SubSeq(s, 1, 2)) >>

\* the year, month and day of a timestamp
DayOf(d) == <<d.Y, d.M, d.D>>

\* a <= b on <<year, month, day>>
DayLeq(a, b) ==
    \/ a = b
    \/ \E i \in 1..3 : a[i] < b[i] /\ \A j \in 1..(i - 1) : a[j] = b[j]

\* the positions of the merged list that hold an operation with a timestamp
Dated(ops) == { i \in 1..Len(ops) : ops[i].date # NoDate }

\* C27: date_start and date_end of the result name the day of the smallest and of the
\* largest timestamp of the merged, deduplicated list, so date_start is not after
\* date_end and the day of every operation lies between them; both are the empty
\* string exactly when no operation has a timestamp.
C27_DateRange ==
    pc = "merged"
    => IF Dated(par) = {}
       THEN ret.value.date_start = <<>> /\ ret.value.date_end = <<>>
       ELSE /\ Len(ret.value.date_start) = 10 /\ Len(ret.value.date_end) = 10
            /\ \E i \in Dated(par) :
                  /\ DayOfText(ret.value.date_start) = DayOf(par[i].date)
                  /\ \A j \in Dated(par) : ~DtLess(par[j].date, par[i].date)
            /\ \E i \in Dated(par) :
                  /\ DayOfText(ret.value.date_end) = DayOf(par[i].date)
                  /\ \A j \in Dated(par) : ~DtLess(par[i].date, par[j].date)
            /\ DayLeq(DayOfText(ret.value.date_start), DayOfText(ret.value.date_end))
            /\ \A j \in Dated(par) :
                  /\ DayLeq(DayOfText(ret.value.date_start), DayOf(par[j].date))
                  /\ DayLeq(DayOf(par[j].date), DayOfText(ret.value.date_end))

\* three operations of three categories, the earliest on the last day of February and
\* one without a timestamp: the range is 28.02.2023 to 01.03.2023
C27_Witness ==
    /\ pc = "merged"
    /\ Len(par) = 3
    /\ Len(fin.ops) = 1 /\ Len(trd.ops) = 1 /\ Len(trf.ops) = 1
    /\ Cardinality(Dated(par)) = 2
    /\ ret.value.date_start = <<50, 56, 46, 48, 50, 46, 50, 48, 50, 51>>
    /\ ret.value.date_end = <<48, 49, 46, 48, 51, 46, 50, 48, 50, 51>>

\* the keys of the operations of a list
KeysOf(ops) == { op_key(ops[i]) : i \in 1..Len(ops) }

\* C30: in every result meta.total_ops_count is the length of the returned operations
\* list and the sum of the numbers of operations the three categories keep after
\* deduplication; a list is deduplicated on its own, so an operation is not removed
\* for having the dedup key of an operation of another category.
C30_MergeCount ==
    pc = "merged"
    => /\ ret.value.meta.total_ops_count = Len(ret.value.operations)
       /\ ret.value.meta.total_ops_count
            = Cardinality(KeysOf(fin.ops)) + Cardinality(KeysOf(trd.ops))
              + Cardinality(KeysOf(trf.ops))
       /\ \A i \in 1..Len(fin.ops) :
             (\A j \in 1..(i - 1) : op_key(fin.ops[j]) # op_key(fin.ops[i]))
             => \E n \in 1..Len(par) : par[n] = fin.ops[i]
       /\ \A i \in 1..Len(trd.ops) :
             (\A j \in 1..(i - 1) : op_key(trd.ops[j]) # op_key(trd.ops[i]))
             => \E n \in 1..Len(par) : par[n] = trd.ops[i]
       /\ \A i \in 1..Len(trf.ops) :
             (\A j \in 1..(i - 1) : op_key(trf.ops[j]) # op_key(trf.ops[i]))
             => \E n \in 1..Len(par) : par[n] = trf.ops[i]

\* a trade and a transfer with the same identifier were both kept, and the second of
\* two trades with that identifier was not
C30_Witness ==
    /\ pc = "merged"
    /\ fin.ops = <<>> /\ Len(trd.ops) = 2 /\ Len(trf.ops) = 1
    /\ KeysOf(trd.ops) = KeysOf(trf.ops)
    /\ trd.ops[1] # trd.ops[2]
    /\ Cardinality(KeysOf(trd.ops)) = 1
    /\ ret.value.meta.total_ops_count = 2
    /\ par = <<trd.ops[1], trf.ops[1]>>

\* the rows the loop has gone through
RowsDone == par - LoopStart(arg.c, arg.df)

\* C28: after any prefix of the data rows, in each category parser every row counted
\* in total_rows is counted in exactly one of parsed and the skip counters, so
\* total_rows is parsed plus the sum of the skip counters (skipped for the cash
\* movements; skipped_no_date, skipped_no_qty and skipped_invalid for the trades; those
\* and skipped_not_conversion for the transfers), and the number of operations emitted
\* so far is parsed.
C28_RowAccounting ==
    /\ arg.c = "fin"
       => /\ fin.stats.total_rows = RowsDone
          /\ fin.stats.total_rows = fin.stats.parsed + fin.stats.skipped
          /\ Len(fin.ops) = fin.stats.parsed
    /\ arg.c = "trades"
       => /\ trd.stats.total_rows = RowsDone
          /\ trd.stats.total_rows = trd.stats.parsed + trd.stats.skipped_no_date
                                    + trd.stats.skipped_no_qty + trd.stats.skipped_invalid
          /\ Len(trd.ops) = trd.stats.parsed
    /\ arg.c = "transfers"
       => /\ trf.stats.total_rows = RowsDone
          /\ trf.stats.total_rows = trf.stats.parsed + trf.stats.skipped_no_date
                                    + trf.stats.skipped_no_qty + trf.stats.skipped_invalid
                                    + trf.stats.skipped_not_conversion
          /\ Len(trf.ops) = trf.stats.parsed

\* three rows of the trades sheet: one parsed, one skipped for its date and one for its
\* quantity
C28_Witness ==
    /\ pc = "loop" /\ arg.c = "trades" /\ par = 3
    /\ trd.stats.total_rows = 3
    /\ trd.stats.parsed = 1 /\ Len(trd.ops) = 1
    /\ trd.stats.skipped_no_date = 1
    /\ trd.stats.skipped_no_qty = 1

\* C29: in the row loop of the cash-movement parser a row whose date cell is not empty
\* but cannot be read is skipped and leaves the remembered last valid date as it was,
\* whereas a row with a valid date that a skip rule skips (totals row, duplicate trade
\* leg, empty label) replaces the remembered date with its own.
C29_SkippedRowsAndDate ==
    [][AtRow
       => /\ (~IsNa(arg[par + 1][1]) /\ ~OwnDate(arg[par + 1]).ok)
             => /\ fin'.ops = fin.ops
                /\ fin'.stats.skipped = fin.stats.skipped + 1
                /\ fin'.last = fin.last
          /\ arg[par + 1] \in {FinRowTotal, FinRowLeg, FinRowBare}
             => /\ fin'.ops = fin.ops
                /\ fin'.stats.skipped = fin.stats.skipped + 1
                /\ fin'.last = OwnDate(arg[par + 1])]_vars

\* a dividend without a date of its own took the date of the totals row before it, not
\* the date of the first row
C29_Witness ==
    /\ pc = "rows" /\ par = 3
    /\ arg = <<FinRowDated, FinRowTotal, FinRowUndated>>
    /\ Len(fin.ops) = 2
    /\ fin.stats.skipped = 1
    /\ fin.ops[2].date = Datetime(2023, 3, 17, 0, 0, 0)

============================================================================
